---- MODULE Spec2Model ----
(***************************************************************************)
(* A model of the temporal-alignment and fiber-photometry assembly logic   *)
(* of howe-lab-to-nwb (vu2024): the document operations of                 *)
(* utils/add_fiber_photometry.py, the fiber-photometry interface, the      *)
(* converter Vu2024NWBConverter and the single/dual wavelength session     *)
(* entry points.                                                           *)
(*                                                                         *)
(* Conventions.  Python's None is the empty set and a present value v is   *)
(* the singleton {v}.  A call's outcome is a record whose field err is     *)
(* "ok" or the name of the exception that left the call; the other fields  *)
(* are the objects as the call left them (what an exception leaves behind  *)
(* included).  Strings the code concatenates or searches are sequences of  *)
(* tokens.  Timestamps are integers (ticks).  Python lists keep their      *)
(* 0-based indices as values; TLA+ sequences holding them are 1-based.     *)
(***************************************************************************)
EXTENDS Integers, Sequences, FiniteSets, TLC

VARIABLES
    doc,    \* the NWBFile of the document subsystem
    mds,    \* the metadata dictionary of each wavelength's conversion
    env,    \* what a session fixes: its fiber locations, stub_test, ...
    pre,    \* the document as it was before the last operation (history)
    last,   \* the last operation, its arguments and its outcome (history)
    nOps,   \* how many operations have run (bounds the exploration)
    conv,   \* the converter: its interfaces, their timestamps, its flag
    cpre,   \* the converter as it was before the last operation (history)
    clast,  \* the last converter operation and its outcome (history)
    cOps,   \* how many converter operations have run
    sess,   \* the last session entry-point call and its outcome
    unit,   \* a single component under study: an extractor, an interface
    ret     \* the last call on that component and what it returned

vars == <<doc, mds, env, pre, last, nOps, conv, cpre, clast, cOps, sess, unit, ret>>
docVars == <<doc, mds, env, pre, last, nOps>>
convVars == <<conv, cpre, clast, cOps, sess>>
unitVars == <<unit, ret>>

----------------------------------------------------------------------------
(* Bounds of the exploration. *)

MaxFibers == 2      \* columns of the response data, 1..MaxFibers
MaxOps == 2         \* operations on one document
MaxVal == 2         \* distinct field contents of a device record
MaxConvOps == 2     \* operations on one converter
MaxStart == 1       \* aligned starting times 1..MaxStart
MaxSessionOps == 2  \* calls of the session functions
TtlLen == 4         \* samples of a TTL trace

----------------------------------------------------------------------------
(* Helpers. *)

None == {}
Some(v) == {v}
The(s) == CHOOSE v \in s : TRUE

Min(S) == CHOOSE x \in S : \A y \in S : x <= y

RECURSIVE SumSeq(_)
SumSeq(s) == IF s = <<>> THEN 0 ELSE Head(s) + SumSeq(Tail(s))

\* A faulty variant of Prefix: nothing is cut.
PrefixWhole(s, n) == s

\* Python's seq[:n]
Prefix(s, n) == IF Len(s) <= n THEN s ELSE SubSeq(s, 1, n)

\* next((x for x in table if x["name"] == name), None)
Find(table, name) ==
    LET idx == {i \in DOMAIN table : table[i].name = name}
    IN IF idx = {} THEN None ELSE Some(table[Min(idx)])

\* list(range(n))
Range(n) == [i \in 1..n |-> i - 1]

Ok(d) == [doc |-> d, err |-> "ok"]
Raise(d, e) == [doc |-> d, err |-> e]

----------------------------------------------------------------------------
(* The document (NWBFile): the device namespace, the fiber photometry      *)
(* table behind lab_meta_data["FiberPhotometry"], the table regions        *)
(* created so far (a region's identity is its position in regions), the    *)
(* acquisition container, the "ophys" processing module and the names of   *)
(* the objects in the "behavior" processing module.                        *)

DeviceKinds ==
    {"OpticalFiber", "Indicator", "ExcitationSource", "Photodetector",
     "DichroicMirror", "BandOpticalFilter"}

EmptyDoc ==
    [devices |-> {}, hasTable |-> FALSE, rows |-> <<>>, regions |-> <<>>,
     acquisition |-> <<>>, hasOphys |-> FALSE, ophys |-> <<>>, behavior |-> <<>>]

DeviceNames(d) == {x.name : x \in d.devices}
SeriesNames(container) == {container[i].name : i \in DOMAIN container}
GetSeries(container, name) == The(Find(container, name))

\* A faulty variant of add_photometry_device: a registration under a name that
\* exists replaces the device.
add_photometry_device_overwrite(nwbfile, device_metadata, device_type) ==
    IF device_metadata = None THEN Raise(nwbfile, "TypeError")
    ELSE LET rec == The(device_metadata)
             dev == [name |-> rec.name, kind |-> device_type, val |-> rec.val]
         IN Ok([nwbfile EXCEPT !.devices =
                   {x \in @ : x.name # rec.name} \cup {dev}])

\* add_photometry_device: device_metadata["name"] of None is a TypeError;
\* a name that exists returns at once; a device_type outside the dispatch
\* table is a KeyError; otherwise the device is built and added.
add_photometry_device(nwbfile, device_metadata, device_type) ==
    IF device_metadata = None THEN Raise(nwbfile, "TypeError")
    ELSE LET rec == The(device_metadata)
             dev == [name |-> rec.name, kind |-> device_type, val |-> rec.val]
         IN IF rec.name \in DeviceNames(nwbfile) THEN Ok(nwbfile)
            ELSE IF device_type \notin DeviceKinds THEN Raise(nwbfile, "KeyError")
            ELSE Ok([nwbfile EXCEPT !.devices = @ \cup {dev}])

\* add_fiber_photometry_table: creates the table once.
add_fiber_photometry_table(nwbfile) ==
    IF nwbfile.hasTable THEN nwbfile ELSE [nwbfile EXCEPT !.hasTable = TRUE]

\* get_module(nwbfile, "ophys", ...): creates the module when absent.
get_module(nwbfile) == [nwbfile EXCEPT !.hasOphys = TRUE]

----------------------------------------------------------------------------
(* Metadata: metadata["Ophys"]["FiberPhotometry"].  traces is the list     *)
(* FiberPhotometryResponseSeries (a trace's refs maps the keys it carries  *)
(* to device names), tables maps each device list to its records, devices  *)
(* is the list "Devices".                                                  *)

\* The device references add_fiber_photometry_series resolves, in the
\* order of the code: the key of the trace metadata, the lists searched,
\* the device type registered, whether a missing record is tested for.
DeviceSteps ==
    << [field |-> "optical_fiber", tables |-> <<"OpticalFibers">>,
        kind |-> "OpticalFiber", checked |-> FALSE],
       [field |-> "indicator", tables |-> <<"Indicator">>,
        kind |-> "Indicator", checked |-> TRUE],
       [field |-> "excitation_source", tables |-> <<"ExcitationSources">>,
        kind |-> "ExcitationSource", checked |-> TRUE],
       [field |-> "photodetector", tables |-> <<"Photodetectors">>,
        kind |-> "Photodetector", checked |-> TRUE],
       [field |-> "dichroic_mirror", tables |-> <<"DichroicMirrors">>,
        kind |-> "DichroicMirror", checked |-> TRUE],
       [field |-> "excitation_filter", tables |-> <<"BandOpticalFilters">>,
        kind |-> "BandOpticalFilter", checked |-> TRUE],
       [field |-> "emission_filter",
        tables |-> <<"BandOpticalFilters", "EdgeOpticalFilters">>,
        kind |-> "BandOpticalFilter", checked |-> TRUE] >>

\* The record of `name` in the first of `tables` that has one, or None.
RECURSIVE LookupDevice(_, _, _)
LookupDevice(md, tables, name) ==
    IF tables = <<>> THEN None
    ELSE LET hit == Find(md.tables[Head(tables)], name)
         IN IF hit # None THEN hit ELSE LookupDevice(md, Tail(tables), name)

\* Lines 90-175 of add_fiber_photometry_series: resolve and register the
\* devices of steps k.. in order; the first failure leaves the call.
RECURSIVE ResolveDevices(_, _, _, _)
ResolveDevices(nwbfile, md, trace, k) ==
    IF k > Len(DeviceSteps) THEN Ok(nwbfile)
    ELSE LET step == DeviceSteps[k]
         IN IF step.field \notin DOMAIN trace.refs
            THEN Raise(nwbfile, "KeyError")
            ELSE LET name == trace.refs[step.field]
                     meta == LookupDevice(md, step.tables, name)
                 IN IF meta = None /\ step.checked
                    THEN Raise(nwbfile, "ValueError")
                    ELSE LET r == add_photometry_device(nwbfile, meta, step.kind)
                         IN IF r.err # "ok" THEN r
                            ELSE ResolveDevices(r.doc, md, trace, k + 1)

Device(nwbfile, name) == The({x \in nwbfile.devices : x.name = name})

\* One row of the fiber photometry table (lines 182-196).
FiberRow(nwbfile, trace, loc) ==
    [loc |-> loc,
     indicator |-> Device(nwbfile, trace.refs["indicator"]),
     optical_fiber |-> Device(nwbfile, trace.refs["optical_fiber"]),
     excitation_source |-> Device(nwbfile, trace.refs["excitation_source"]),
     photodetector |-> Device(nwbfile, trace.refs["photodetector"]),
     dichroic_mirror |-> Device(nwbfile, trace.refs["dichroic_mirror"]),
     excitation_filter |-> Device(nwbfile, trace.refs["excitation_filter"]),
     emission_filter |-> Device(nwbfile, trace.refs["emission_filter"])]

\* calculate_regular_series_rate: the series' rate when all consecutive
\* differences are equal, else None.  The rate 1/diff is kept as its
\* period diff.
calculate_regular_series_rate(series) ==
    IF Len(series) >= 2
       /\ \A i \in 2..Len(series) : series[i] - series[i-1] = series[2] - series[1]
    THEN Some(series[2] - series[1])
    ELSE None

\* Lines 204-209: the timing of the first series.
TimingFrom(timestamps) ==
    LET rate == calculate_regular_series_rate(timestamps)
    IN IF rate # None
       THEN [rate |-> rate, starting_time |-> Some(timestamps[1]), timestamps |-> None]
       ELSE [rate |-> None, starting_time |-> None, timestamps |-> Some(timestamps)]

\* Lines 213-219: the timing of a later series, read from the raw series.
TimingOf(series) ==
    IF series.timing.timestamps # None
    THEN [rate |-> None, starting_time |-> None, timestamps |-> series.timing.timestamps]
    ELSE [rate |-> series.timing.rate, starting_time |-> series.timing.starting_time,
          timestamps |-> None]

\* Lines 181-196: one row per fiber index; indexing fiber_locations_metadata
\* past its end is an IndexError that leaves the rows added so far.
AddRows(nwbfile, trace, num_fibers, fiber_locations_metadata) ==
    LET n == IF num_fibers <= Len(fiber_locations_metadata)
             THEN num_fibers ELSE Len(fiber_locations_metadata)
        new == [i \in 1..n |-> FiberRow(nwbfile, trace, fiber_locations_metadata[i])]
        d == [nwbfile EXCEPT !.rows = @ \o new]
    IN IF n < num_fibers THEN Raise(d, "IndexError") ELSE Ok(d)

\* create_fiber_photometry_table_region: a new region object over the given
\* row indices; an index outside the table is an IndexError.
CreateRegion(nwbfile, region) ==
    IF \E i \in DOMAIN region : region[i] < 0 \/ region[i] >= Len(nwbfile.rows)
    THEN Raise(nwbfile, "IndexError")
    ELSE Ok([nwbfile EXCEPT !.regions = Append(@, region)])

\* Lines 230-236: attach the series; a name the container holds already is
\* refused by the container (ValueError), as is an unknown parent_container.
Attach(nwbfile, series, parent_container) ==
    IF parent_container = "acquisition"
    THEN IF series.name \in SeriesNames(nwbfile.acquisition)
         THEN Raise(nwbfile, "ValueError")
         ELSE Ok([nwbfile EXCEPT !.acquisition = Append(@, series)])
    ELSE IF parent_container = "processing/ophys"
    THEN LET d == get_module(nwbfile)
         IN IF series.name \in SeriesNames(d.ophys)
            THEN Raise(d, "ValueError")
            ELSE Ok([d EXCEPT !.ophys = Append(@, series)])
    ELSE Raise(nwbfile, "ValueError")

MakeSeries(trace, data, region, timing) ==
    [name |-> trace.name, description |-> trace.description, data |-> data,
     region |-> region, timing |-> timing]

\* Lines 177-236, the first-population branch.
PopulateAndAttach(nwbfile, trace, data, timestamps, fiber_locations_metadata, table_region, parent_container) ==
    LET r1 == AddRows(nwbfile, trace, data.cols, fiber_locations_metadata)
    IN IF r1.err # "ok" THEN r1
       ELSE LET region == IF table_region = None THEN Range(data.cols)
                          ELSE The(table_region)
                r2 == CreateRegion(r1.doc, region)
            IN IF r2.err # "ok" THEN r2
               ELSE Attach(r2.doc,
                           MakeSeries(trace, data, Len(r2.doc.regions),
                                      TimingFrom(timestamps)),
                           parent_container)

\* Lines 210-236, the reuse branch.
ReuseAndAttach(nwbfile, trace, data, default_series_name, parent_container) ==
    LET raw == GetSeries(nwbfile.acquisition, default_series_name)
    IN Attach(nwbfile, MakeSeries(trace, data, raw.region, TimingOf(raw)),
              parent_container)

\* A faulty variant of SeriesTail: every add populates the table.
SeriesTailAlwaysPopulate(nwbfile, md, trace, data, timestamps, fiber_locations_metadata, table_region, parent_container) ==
    PopulateAndAttach(nwbfile, trace, data, timestamps, fiber_locations_metadata,
                      table_region, parent_container)

\* Lines 177-236: populate when the default series (the first trace of the
\* metadata) is not in acquisition, else reuse its region and timing.
SeriesTail(nwbfile, md, trace, data, timestamps, fiber_locations_metadata, table_region, parent_container) ==
    LET default_series_name == md.traces[1].name
    IN IF default_series_name \notin SeriesNames(nwbfile.acquisition)
       THEN PopulateAndAttach(nwbfile, trace, data, timestamps,
                              fiber_locations_metadata, table_region, parent_container)
       ELSE ReuseAndAttach(nwbfile, trace, data, default_series_name, parent_container)

\* add_fiber_photometry_series.
add_fiber_photometry_series(nwbfile, md, data, timestamps, fiber_photometry_series_name, fiber_locations_metadata, table_region, parent_container) ==
    LET trace_metadata == Find(md.traces, fiber_photometry_series_name)
    IN IF trace_metadata = None THEN Raise(nwbfile, "ValueError")
       ELSE LET trace == The(trace_metadata)
                r == ResolveDevices(add_fiber_photometry_table(nwbfile), md, trace, 1)
            IN IF r.err # "ok" THEN r
               ELSE SeriesTail(r.doc, md, trace, data, timestamps,
                               fiber_locations_metadata, table_region, parent_container)

----------------------------------------------------------------------------
(* The fiber photometry interface's add_to_nwbfile.                        *)

StubFrames == 100

\* str.replace on a description: every token `old` becomes `new`.
Replace(description, old, new) ==
    [i \in DOMAIN description |-> IF description[i] = old THEN new ELSE description[i]]

\* A faulty variant of DerivedTrace: the description is left as it is.
DerivedTraceSameDescription(md, prefix, replacement) ==
    [md.traces[1] EXCEPT !.name = <<prefix>> \o @]

\* Lines 138-146 and 162-170: the metadata of a derived series, a copy of
\* the first trace renamed prefix + name, "Raw" replaced in its description.
DerivedTrace(md, prefix, replacement) ==
    [md.traces[1] EXCEPT !.name = <<prefix>> \o @,
                         !.description = Replace(@, "Raw", replacement)]

\* Lines 102-105: the additional devices, each created unless its name exists.
RECURSIVE CreateDevices(_, _)
CreateDevices(nwbfile, devices) ==
    IF devices = <<>> THEN nwbfile
    ELSE LET dev == [name |-> Head(devices).name, kind |-> "Device", val |-> Head(devices).val]
             d == IF dev.name \in DeviceNames(nwbfile) THEN nwbfile
                  ELSE [nwbfile EXCEPT !.devices = @ \cup {dev}]
         IN CreateDevices(d, Tail(devices))

\* data[:100] in a stub run.
DataToAdd(file, src, stub_test) ==
    [cols |-> The(file.F), src |-> src,
     frames |-> IF stub_test /\ file.frames > StubFrames THEN StubFrames ELSE file.frames]

\* The outcome of a series add, with the metadata it was made with.
WithMetadata(q, md) == [doc |-> q.doc, md |-> md, err |-> q.err]

\* Lines 147-156 and 171-181: the derived series is added under
\* processing/ophys, by the name of the trace appended last.
AddAppended(nwbfile, md, data, timestamps, fiber_locations_metadata, region) ==
    WithMetadata(add_fiber_photometry_series(nwbfile, md, data, timestamps, md.traces[Len(md.traces)].name, fiber_locations_metadata, Some(region), "processing/ophys"), md)

\* Lines 134-181: a derived series, added after its trace metadata has
\* been appended to the metadata.
AddDerived(r, present, src, prefix, replacement, file, timestamps, fiber_locations_metadata, region, stub_test) ==
    IF r.err # "ok" \/ ~present THEN r
    ELSE AddAppended(r.doc, [r.md EXCEPT !.traces = Append(@, DerivedTrace(r.md, prefix, replacement))], DataToAdd(file, src, stub_test), timestamps, fiber_locations_metadata, region)

\* Line 114: the rows the series of this call refer to, counted from the
\* table's length before the call adds its rows.
FiberTableRegion(nwbfile, cols) ==
    [i \in 1..cols |-> (i - 1) + Len(nwbfile.rows)]

\* Lines 112-181: the table, the region of this call, and the raw,
\* baseline and corrected series in the order of the code.
AddFluorescence(nwbfile, md, file, timestamps, fiber_locations_metadata, region, stub_test) ==
    IF Len(fiber_locations_metadata) # The(file.F)
    THEN [doc |-> nwbfile, md |-> md, err |-> "ValueError"]
    ELSE AddDerived(
            AddDerived(
               WithMetadata(add_fiber_photometry_series(nwbfile, md, DataToAdd(file, "F", stub_test), timestamps, md.traces[1].name, fiber_locations_metadata, Some(region), "acquisition"), md),
               file.F_baseline, "F_baseline", "Baseline", "Baseline", file, timestamps, fiber_locations_metadata, region, stub_test),
            file.Fc, "Fc", "DfOverF", "Baseline corrected (DF/F)", file, timestamps, fiber_locations_metadata, region, stub_test)

\* Lines 112-114: the table is there before the region is computed.
WithTable(nwbfile, md, file, timestamps, fiber_locations_metadata, stub_test) ==
    AddFluorescence(nwbfile, md, file, timestamps, fiber_locations_metadata, FiberTableRegion(nwbfile, The(file.F)), stub_test)

\* Vu2024FiberPhotometryInterface.add_to_nwbfile.
FiberPhotometry_add_to_nwbfile(nwbfile, md, file, timestamps, fiber_locations_metadata, stub_test) ==
    IF file.F = None
    THEN [doc |-> CreateDevices(nwbfile, md.devices), md |-> md, err |-> "ValueError"]
    ELSE WithTable(add_fiber_photometry_table(CreateDevices(nwbfile, md.devices)), md, file, timestamps, fiber_locations_metadata, stub_test)

----------------------------------------------------------------------------
(* The metadata a conversion starts from: the defaults of the metadata     *)
(* file, updated for the wavelength by update_fiber_photometry_metadata.   *)

\* Lines 206-211: excitation_wavelength_to_photon_series_name.  The two
\* isosbestic wavelengths share one suffix.
PhotonSeriesNames ==
    (470 :> "Green") @@ (405 :> "GreenIsosbestic") @@ (415 :> "GreenIsosbestic") @@ (570 :> "Red")

Wavelengths == DOMAIN PhotonSeriesNames

\* Line 213: the suffix of the wavelength; a wavelength that is not a key
\* of the table is a KeyError.
NameSuffix(wl) == IF wl \in Wavelengths THEN PhotonSeriesNames[wl] ELSE "KeyError"

\* A series name is the sequence of its words: the words of a suffix.
SuffixWords(name_suffix) ==
    IF name_suffix = "GreenIsosbestic" THEN <<"Green", "Isosbestic">> ELSE <<name_suffix>>

\* Lines 310-311: f"ExcitationSource{wl}" and f"OpticalFilter{wl}".
ExcitationSourceName(wl) == "ExcitationSource" \o ToString(wl)
OpticalFilterName(wl) == "OpticalFilter" \o ToString(wl)
IndicatorOf(wl) == IF wl = 570 THEN "jRGECO1a" ELSE "Ach3.0"
EmissionFilterName(indicator) == IF indicator = "jRGECO1a" THEN "OpticalFilter570" ELSE "OpticalFilter525"

\* The device lists of the metadata file: one record for every device name
\* the conversions refer to.
DefaultTables ==
    [OpticalFibers |-> << [name |-> "OpticalFiber", val |-> 1] >>,
     Indicator |-> << [name |-> "Ach3.0", val |-> 1], [name |-> "jRGECO1a", val |-> 1] >>,
     ExcitationSources |-> << [name |-> "ExcitationSource405", val |-> 1], [name |-> "ExcitationSource415", val |-> 1],
                              [name |-> "ExcitationSource470", val |-> 1], [name |-> "ExcitationSource570", val |-> 1] >>,
     Photodetectors |-> << [name |-> "Photodetector", val |-> 1] >>,
     DichroicMirrors |-> << [name |-> "DichroicMirror1", val |-> 1] >>,
     BandOpticalFilters |-> << [name |-> "OpticalFilter405", val |-> 1], [name |-> "OpticalFilter415", val |-> 1],
                               [name |-> "OpticalFilter470", val |-> 1], [name |-> "OpticalFilter570", val |-> 1],
                               [name |-> "OpticalFilter525", val |-> 1] >>,
     EdgeOpticalFilters |-> << >>]

\* Lines 316-319: a second dichroic mirror for the 570 nm excitation.
SecondDichroicMirror(wl) ==
    IF wl = 570 THEN [dichroic_mirror2 |-> "DichroicMirror2"] ELSE <<>>

\* update_fiber_photometry_metadata applied to the defaults.
update_fiber_photometry_metadata(name_suffix, indicator, wl) ==
    [traces |-> << [name |-> <<"FiberPhotometryResponseSeries">> \o SuffixWords(name_suffix),
                    description |-> <<"Raw", "fluorescence">>,
                    refs |-> [optical_fiber |-> "OpticalFiber",
                              indicator |-> indicator,
                              excitation_source |-> ExcitationSourceName(wl),
                              photodetector |-> "Photodetector",
                              dichroic_mirror |-> "DichroicMirror1",
                              excitation_filter |-> OpticalFilterName(wl),
                              emission_filter |-> EmissionFilterName(indicator)]
                             @@ SecondDichroicMirror(wl)] >>,
     tables |-> DefaultTables,
     devices |-> << [name |-> "HamamatsuCamera", val |-> 1] >>]

SessionMetadata(wl) == update_fiber_photometry_metadata(NameSuffix(wl), IndicatorOf(wl), wl)

\* Metadata that lists the derived traces from the start, as a caller of
\* add_fiber_photometry_series writes it.
WithDerived(md) ==
    [md EXCEPT !.traces = @ \o << DerivedTrace(md, "Baseline", "Baseline") >>]

----------------------------------------------------------------------------
(* The document subsystem: one document, the metadata of each wavelength,  *)
(* and the three operations that write fiber photometry into it.           *)

Timestamps == { <<0, 1, 2>>, <<0, 1, 3>> }
Locations(n) == [i \in 1..n |-> [location |-> i, included |-> TRUE]]
Containers == {"acquisition", "processing/ophys", "analysis"}
TraceNames(md) == {md.traces[i].name : i \in DOMAIN md.traces} \cup { <<"Unlisted">> }
Files == {f \in [F : {Some(n) : n \in 1..MaxFibers} \cup {None}, F_baseline : BOOLEAN, Fc : BOOLEAN, frames : {3}] : f.F = None => (f.F_baseline /\ f.Fc)}

DocInit(wls, stubs) ==
    /\ doc = EmptyDoc
    /\ \E derived \in BOOLEAN :
          mds = [wl \in Wavelengths |->
                    IF derived THEN WithDerived(SessionMetadata(wl)) ELSE SessionMetadata(wl)]
    /\ env \in [nlocs : 1..MaxFibers, stub_test : stubs, wl : wls]
    /\ pre = EmptyDoc
    /\ last = [op |-> "init", err |-> "ok"]
    /\ nOps = 0

\* A caller registers a device record.
DocAddDevice ==
    /\ nOps < MaxOps
    /\ \E name \in {"OpticalFiber", "Laser"}, val \in 1..MaxVal, kind \in {"OpticalFiber", "Indicator", "Laser"} :
          LET r == add_photometry_device(doc, Some([name |-> name, val |-> val]), kind)
          IN /\ doc' = r.doc
             /\ last' = [op |-> "add_photometry_device", err |-> r.err, name |-> name, val |-> val, kind |-> kind]
    /\ pre' = doc
    /\ nOps' = nOps + 1
    /\ UNCHANGED <<mds, env, convVars, unitVars>>

\* A caller adds one response series of the session's wavelength.
DocAddSeries ==
    /\ nOps < MaxOps
    /\ \E cols \in 1..MaxFibers, ts \in Timestamps, container \in Containers, given \in BOOLEAN, name \in TraceNames(mds[env.wl]) :
          LET data == [cols |-> cols, src |-> "F", frames |-> Len(ts)]
              region == IF given THEN Some(FiberTableRegion(doc, cols)) ELSE None
              r == add_fiber_photometry_series(doc, mds[env.wl], data, ts, name, Locations(env.nlocs), region, container)
          IN /\ doc' = r.doc
             /\ last' = [op |-> "add_fiber_photometry_series", err |-> r.err, name |-> name, cols |-> cols, container |-> container]
    /\ pre' = doc
    /\ nOps' = nOps + 1
    /\ UNCHANGED <<mds, env, convVars, unitVars>>

\* The interface of one wavelength adds its file to the document.
DocInterfaceAdd ==
    /\ nOps < MaxOps
    /\ \E wl \in Wavelengths, file \in Files, ts \in Timestamps :
          LET r == FiberPhotometry_add_to_nwbfile(doc, mds[wl], file, ts, Locations(env.nlocs), env.stub_test)
          IN /\ doc' = r.doc
             /\ mds' = [mds EXCEPT ![wl] = r.md]
             /\ last' = [op |-> "add_to_nwbfile", err |-> r.err, wl |-> wl, file |-> file]
    /\ pre' = doc
    /\ nOps' = nOps + 1
    /\ UNCHANGED <<env, convVars, unitVars>>

\* Metadata as a caller may pass it: the session's (how = "intact"), the
\* session's with the record of the device that step k refers to taken out
\* of its lists (how = "record"), or with the key of step k taken out of
\* the trace metadata (how = "key").
Breakages == {[how |-> "intact", k |-> 0]} \cup [how : {"record", "key"}, k : 1..Len(DeviceSteps)]

CallerMetadata(md, b) ==
    IF b.how = "intact" THEN md
    ELSE LET field == DeviceSteps[b.k].field
             name == md.traces[1].refs[field]
         IN IF b.how = "record"
            THEN [md EXCEPT !.tables = [t \in DOMAIN md.tables |-> SelectSeq(md.tables[t], LAMBDA rec : rec.name # name)]]
            ELSE [md EXCEPT !.traces[1].refs = [key \in DOMAIN md.traces[1].refs \ {field} |-> md.traces[1].refs[key]]]

LookupInit ==
    /\ doc = EmptyDoc
    /\ \E b \in Breakages :
          /\ mds = [wl \in Wavelengths |-> CallerMetadata(SessionMetadata(wl), b)]
          /\ \E nlocs \in 1..MaxFibers, wl \in Wavelengths :
                env = [nlocs |-> nlocs, stub_test |-> FALSE, wl |-> wl, broken |-> b]
    /\ pre = EmptyDoc
    /\ last = [op |-> "init", err |-> "ok"]
    /\ nOps = 0

\* A caller adds one response series with the metadata it holds, one
\* fiber location per column.
LookupAddSeries ==
    /\ nOps < MaxOps
    /\ \E container \in Containers, name \in TraceNames(mds[env.wl]) :
          \E r \in {add_fiber_photometry_series(doc, mds[env.wl], [cols |-> env.nlocs, src |-> "F", frames |-> 3], <<0, 1, 2>>, name, Locations(env.nlocs), None, container)} :
             /\ doc' = r.doc
             /\ last' = [op |-> "add_fiber_photometry_series", err |-> r.err, name |-> name, cols |-> env.nlocs, container |-> container]
    /\ pre' = doc
    /\ nOps' = nOps + 1
    /\ UNCHANGED <<mds, env, convVars, unitVars>>

----------------------------------------------------------------------------
(* The converter, Vu2024NWBConverter: its interfaces with the timestamps   *)
(* each holds, the files they read, and the flag `aligned`.  The Imaging   *)
(* and FiberPhotometry interfaces are always there; has lists the optional *)
(* ones.  A video's stream is the ttl_stream_name chosen for it.           *)

\* A set of integers as an increasing sequence.
RECURSIVE Sorted(_)
Sorted(S) == IF S = {} THEN <<>> ELSE <<Min(S)>> \o Sorted(S \ {Min(S)})

Sign(x) == IF x > 0 THEN 1 ELSE IF x < 0 THEN -1 ELSE 0

\* A faulty variant of get_rising_frames_from_ttl: the index of the last
\* sample before each rise.
get_frames_before_rise(trace) ==
    Sorted({p - 2 : p \in {q \in 2..Len(trace) : trace[q] > trace[q - 1]}})

\* get_rising_frames_from_ttl: the 0-based indices at which the sign of
\* (trace - mean(trace)) rises.
get_rising_frames_from_ttl(trace) ==
    LET sgn(p) == Sign(Len(trace) * trace[p] - SumSeq(trace))
    IN Sorted({p - 1 : p \in {q \in 2..Len(trace) : sgn(q) - sgn(q - 1) > 0}})

\* array[indices]; an index past the end is an IndexError (None here).
Take(array, indices) ==
    IF \E i \in DOMAIN indices : indices[i] >= Len(array) THEN None
    ELSE Some([i \in DOMAIN indices |-> array[indices[i] + 1]])

\* Whether the string of a path (its components joined, each a sequence
\* of word tokens) contains the word.
InPath(part, video_file_path) ==
    \E i \in DOMAIN video_file_path : \E j \in DOMAIN video_file_path[i] : video_file_path[i][j] = part

\* Lines 72-78: the TTL stream of a video, from its file path; None stands
\* for the ValueError.
TtlStreamFor(video_file_path) ==
    IF \E part \in {"body", "top", "video1"} : InPath(part, video_file_path) THEN Some("ttlIn3")
    ELSE IF \E part \in {"lick", "face", "side", "video2"} : InPath(part, video_file_path) THEN Some("ttlIn4")
    ELSE None

COk(c) == [conv |-> c, err |-> "ok"]
CRaise(c, e) == [conv |-> c, err |-> e]

\* Lines 71-86: the videos from the k-th on, in the order of the interfaces.
RECURSIVE AlignVideos(_, _, _)
AlignVideos(c, aligned_timestamps, k) ==
    IF k > Len(c.videos) THEN COk(c)
    ELSE LET ttl_stream_name == TtlStreamFor(c.videos[k].path)
         IN IF ttl_stream_name = None THEN CRaise(c, "ValueError")
            ELSE LET rising_frames == get_rising_frames_from_ttl(c.ttl[The(ttl_stream_name)])
                     taken == Take(c.ttl.timestamp, rising_frames)
                 IN IF taken = None THEN CRaise(c, "IndexError")
                    ELSE LET video_timestamps == Prefix(The(taken), Len(aligned_timestamps))
                             c2 == [c EXCEPT !.videos[k].timestamps = Some(video_timestamps),
                                             !.videos[k].stream = ttl_stream_name]
                         IN AlignVideos(c2, aligned_timestamps, k + 1)

\* Vu2024BehaviorInterface.get_timestamps (the full read).
Behavior_get_timestamps(behavior) ==
    IF behavior.timestamps # None THEN behavior.timestamps ELSE behavior.file.timestamp

\* imaging.set_aligned_starting_time: the timestamps shifted by the time.
Shifted(times, aligned_starting_time) ==
    [i \in DOMAIN times |-> times[i] + aligned_starting_time]

\* A faulty variant of Propagate: the processed imaging is left out.
PropagateFiberPhotometryOnly(c, aligned_timestamps) ==
    COk([c EXCEPT !.fiber_photometry.timestamps = Some(aligned_timestamps)])

\* Lines 63-68: the imaging timestamps handed to the fiber photometry and,
\* when there is one, to the processed imaging, whose extractor refuses
\* times of another length than its frames.
Propagate(c, aligned_timestamps) ==
    LET c1 == [c EXCEPT !.fiber_photometry.timestamps = Some(aligned_timestamps)]
    IN IF "ProcessedImaging" \notin c.has THEN COk(c1)
       ELSE IF Len(aligned_timestamps) # Len(c.processed.times) THEN CRaise(c1, "AssertionError")
       ELSE COk([c1 EXCEPT !.processed.times = aligned_timestamps])

\* Lines 49-88, past the guard of the flag.
AlignBody(c, aligned_starting_time) ==
    LET has_behavior == "Behavior" \in c.has
        behavior_timestamps == Behavior_get_timestamps(c.behavior)
        start == IF has_behavior /\ aligned_starting_time = None
                 THEN Some(The(behavior_timestamps)[1]) ELSE aligned_starting_time
    IN IF has_behavior /\ aligned_starting_time = None /\ behavior_timestamps = None
       THEN CRaise(c, "ValueError")
       ELSE IF start = None THEN CRaise(c, "TypeError")
       ELSE LET c1 == [c EXCEPT !.imaging.times = Shifted(@, The(start))]
                aligned_timestamps == c1.imaging.times
                r2 == Propagate(c1, aligned_timestamps)
            IN IF r2.err # "ok" THEN r2
               ELSE LET r3 == AlignVideos(r2.conv, aligned_timestamps, 1)
                    IN IF r3.err # "ok" THEN r3
                       ELSE COk([r3.conv EXCEPT !.aligned = TRUE])

\* A faulty variant of temporally_align_data_interfaces: no guard.
temporally_align_unguarded(c, aligned_starting_time) ==
    AlignBody(c, aligned_starting_time)

\* Vu2024NWBConverter.temporally_align_data_interfaces.
temporally_align_data_interfaces(c, aligned_starting_time) ==
    IF c.aligned THEN COk(c) ELSE AlignBody(c, aligned_starting_time)

\* Vu2024FiberPhotometryInterface.get_original_timestamps: the TTL file's
\* timestamps at the rising frames of the interface's stream.
FiberPhotometry_get_original_timestamps(c) ==
    Take(c.ttl.timestamp, get_rising_frames_from_ttl(c.ttl[c.fiber_photometry.ttl_stream_name]))

\* Vu2024FiberPhotometryInterface.get_timestamps; None is the IndexError
\* of the original read.
FiberPhotometry_get_timestamps(c, stub_test) ==
    LET timestamps == IF c.fiber_photometry.timestamps # None THEN c.fiber_photometry.timestamps
                      ELSE FiberPhotometry_get_original_timestamps(c)
    IN IF timestamps = None THEN None
       ELSE IF stub_test THEN Some(Prefix(The(timestamps), StubFrames)) ELSE timestamps

\* The behavior interface's add_binary_signals.  A behavior file is a
\* record of the arrays it holds: a binary signal is in the file when its
\* name is a field of the record.

\* Lines 184-190: event_name_mapping, the signal names in the order of the
\* loop, each with its event type.
event_name_mapping ==
    << <<"stimulus_led", "Light">>, <<"stimulus_led2", "Light">>, <<"stimulus_sound", "Tone">>,
       <<"lick", "Lick">>, <<"reward", "Reward">> >>

\* np.where(np.diff(event_data) == change)[0] + 1, sorted: the 0-based
\* indices of the samples that differ by `change` from the one before.
Changes(event_data, change) ==
    SelectSeq([j \in 1..(Len(event_data) - 1) |-> j], LAMBDA j : event_data[j + 1] - event_data[j] = change)

Intervals(err, rows) == [err |-> err, intervals |-> rows]

\* Lines 217-225: the data frame of one signal, start_time with stop_time;
\* columns of different lengths are a ValueError.
EventRows(timestamps, stim_on, stim_off, event_type) ==
    IF Len(stim_on) # Len(stim_off) THEN Intervals("ValueError", None)
    ELSE Intervals("ok", Some([i \in DOMAIN stim_on |->
                    [start_time |-> timestamps[stim_on[i] + 1],
                     stop_time |-> timestamps[stim_off[i] + 1],
                     event_type |-> event_type]]))

\* Lines 214-215: a last onset without offset is dropped.
DropLastOn(timestamps, stim_on, stim_off, event_type) ==
    IF stim_off = <<>> THEN Intervals("IndexError", None)
    ELSE IF stim_on[Len(stim_on)] > stim_off[Len(stim_off)]
    THEN EventRows(timestamps, SubSeq(stim_on, 1, Len(stim_on) - 1), stim_off, event_type)
    ELSE EventRows(timestamps, stim_on, stim_off, event_type)

\* Lines 199-213: no onset, no data frame (None); a first offset without
\* onset is dropped; stim_off[0] of no offset at all is an IndexError.
DropFirstOff(timestamps, stim_on, stim_off, event_type) ==
    IF stim_on = <<>> THEN Intervals("ok", None)
    ELSE IF stim_off = <<>> THEN Intervals("IndexError", None)
    ELSE IF stim_off[1] < stim_on[1] THEN DropLastOn(timestamps, stim_on, Tail(stim_off), event_type)
    ELSE DropLastOn(timestamps, stim_on, stim_off, event_type)

\* Lines 236-238: sort_values(by="start_time") and reset_index.  The sort
\* of so few rows is an insertion sort: rows of equal start_time keep the
\* order of the concatenation.
RECURSIVE sort_values(_)
sort_values(rows) ==
    IF rows = <<>> THEN <<>>
    ELSE LET first == Min({i \in DOMAIN rows : \A j \in DOMAIN rows :
                             rows[i].start_time <= rows[j].start_time})
         IN <<rows[first]>> \o sort_values(SubSeq(rows, 1, first - 1) \o SubSeq(rows, first + 1, Len(rows)))

\* Lines 192-238: the loop over the signal names from the k-th on; rows are
\* the concatenated data frames so far (a data frame has at least one row).
\* Without a data frame no table is made (None, lines 227-228).
RECURSIVE EventFrames(_, _, _, _)
EventFrames(behavior_data, timestamps, k, rows) ==
    IF k > Len(event_name_mapping)
    THEN (IF rows = <<>> THEN Intervals("ok", None) ELSE Intervals("ok", Some(sort_values(rows))))
    ELSE IF event_name_mapping[k][1] \notin DOMAIN behavior_data
    THEN EventFrames(behavior_data, timestamps, k + 1, rows)
    ELSE LET event_data == behavior_data[event_name_mapping[k][1]]
             r == DropFirstOff(timestamps, Changes(event_data, 1), Changes(event_data, -1), event_name_mapping[k][2])
         IN IF r.err # "ok" THEN r
            ELSE IF r.intervals = None THEN EventFrames(behavior_data, timestamps, k + 1, rows)
            ELSE EventFrames(behavior_data, timestamps, k + 1, rows \o The(r.intervals))

\* add_binary_signals: the intervals of the events table it adds, None
\* when it adds no table.
add_binary_signals(behavior_data, timestamps) ==
    EventFrames(behavior_data, timestamps, 1, <<>>)

\* What an interface of the library read from the converter when it wrote
\* its objects: its timestamps, and whether the converter was aligned by then.
Read(c, key, timestamps) == [iface |-> key, aligned |-> c.aligned, timestamps |-> timestamps]

VideoReads(c) == [k \in DOMAIN c.videos |-> Read(c, c.videos[k].key, c.videos[k].timestamps)]

\* The reads of the interfaces before the fiber photometry, and after it.
ReadsBefore(c) ==
    <<Read(c, "Imaging", Some(c.imaging.times))>>
    \o (IF "ProcessedImaging" \in c.has
        THEN <<Read(c, "ProcessedImaging", Some(c.processed.times))>> ELSE <<>>)

ReadsAfter(c) ==
    (IF "Behavior" \in c.has
     THEN <<Read(c, "Behavior", Behavior_get_timestamps(c.behavior))>> ELSE <<>>)
    \o VideoReads(c)

\* add_velocity_signals on the document, lines 141-171: a file without
\* timestamps is a ValueError before the module is touched; the "behavior"
\* module refuses a second "AngularVelocity" (ValueError); else both
\* velocity series are added.
Behavior_add_velocity_series(nwbfile, behavior) ==
    IF Behavior_get_timestamps(behavior) = None THEN Raise(nwbfile, "ValueError")
    ELSE IF \E i \in DOMAIN nwbfile.behavior : nwbfile.behavior[i] = "AngularVelocity"
    THEN Raise(nwbfile, "ValueError")
    ELSE Ok([nwbfile EXCEPT !.behavior = @ \o <<"AngularVelocity", "Velocity">>])

\* Lines 227-248: the events table joins the "behavior" module when there
\* are intervals, and the module refuses a second "TimeIntervals"
\* (ValueError); an exception of the computation leaves the document.
EventsAdded(nwbfile, r) ==
    IF r.err # "ok" THEN Raise(nwbfile, r.err)
    ELSE IF r.intervals = None THEN Ok(nwbfile)
    ELSE IF \E i \in DOMAIN nwbfile.behavior : nwbfile.behavior[i] = "TimeIntervals"
    THEN Raise(nwbfile, "ValueError")
    ELSE Ok([nwbfile EXCEPT !.behavior = Append(@, "TimeIntervals")])

\* add_binary_signals on the document, lines 173-248: the timestamps are
\* read first (line 180), and a file without them is the ValueError of
\* get_original_timestamps (line 47), whatever signals the file holds.
Behavior_add_binary_signals(nwbfile, behavior) ==
    IF Behavior_get_timestamps(behavior) = None THEN Raise(nwbfile, "ValueError")
    ELSE EventsAdded(nwbfile, add_binary_signals(behavior.file, The(Behavior_get_timestamps(behavior))))

\* The behavior interface's add_velocity_signals returned v, line 258:
\* then add_binary_signals, line 264.
AfterVelocity(v, behavior) ==
    IF v.err # "ok" THEN v ELSE Behavior_add_binary_signals(v.doc, behavior)

\* The behavior interface's add returned b: the interfaces after it.  The
\* interface has read its timestamps (line 141) unless the file has none.
AfterBehavior(c, r, b, reads) ==
    IF b.err = "ok"
    THEN [conv |-> c, doc |-> b.doc, md |-> r.md, err |-> "ok", reads |-> reads \o ReadsAfter(c)]
    ELSE IF Behavior_get_timestamps(c.behavior) = None
    THEN [conv |-> c, doc |-> b.doc, md |-> r.md, err |-> b.err, reads |-> reads]
    ELSE [conv |-> c, doc |-> b.doc, md |-> r.md, err |-> b.err,
          reads |-> Append(reads, Read(c, "Behavior", Behavior_get_timestamps(c.behavior)))]

\* The interfaces after the fiber photometry, whose add returned r: the
\* behavior interface, when the converter has one, then the others.
AfterFiberPhotometry(c, r, reads) ==
    IF r.err # "ok"
    THEN [conv |-> c, doc |-> r.doc, md |-> r.md, err |-> r.err, reads |-> reads]
    ELSE IF "Behavior" \in c.has
    THEN AfterBehavior(c, r, AfterVelocity(Behavior_add_velocity_series(r.doc, c.behavior), c.behavior), reads)
    ELSE [conv |-> c, doc |-> r.doc, md |-> r.md, err |-> "ok", reads |-> reads \o ReadsAfter(c)]

\* The fiber photometry interface's add, with the timestamps it read.
AddFiberPhotometry(c, nwbfile, md, options, timestamps) ==
    IF timestamps = None
    THEN [conv |-> c, doc |-> nwbfile, md |-> md, err |-> "IndexError", reads |-> ReadsBefore(c)]
    ELSE AfterFiberPhotometry(c,
            FiberPhotometry_add_to_nwbfile(nwbfile, md, c.fiber_photometry.file, The(timestamps), options.fiber_locations_metadata, options.stub_test),
            Append(ReadsBefore(c), Read(c, "FiberPhotometry", timestamps)))

\* NWBConverter.add_to_nwbfile: every interface's add_to_nwbfile, in the
\* order of data_interface_classes, with its conversion options.
InterfacesAdd(c, nwbfile, md, options) ==
    AddFiberPhotometry(c, nwbfile, md, options, FiberPhotometry_get_timestamps(c, options.stub_test))

\* A faulty variant of Converter_add_to_nwbfile: the interfaces write
\* first, the alignment comes after.
Converter_add_then_align(c, nwbfile, md, options, aligned_starting_time) ==
    LET r == InterfacesAdd(c, get_module(nwbfile), md, options)
        a == temporally_align_data_interfaces(c, aligned_starting_time)
    IN IF r.err # "ok" THEN r
       ELSE [r EXCEPT !.conv = a.conv, !.err = a.err]

\* Lines 98-102: after the alignment returned a, the module and the
\* interfaces; an exception of the alignment leaves the method.
AddAligned(a, nwbfile, md, options) ==
    IF a.err # "ok"
    THEN [conv |-> a.conv, doc |-> nwbfile, md |-> md, err |-> a.err, reads |-> <<>>]
    ELSE InterfacesAdd(a.conv, get_module(nwbfile), md, options)

\* Vu2024NWBConverter.add_to_nwbfile.
Converter_add_to_nwbfile(c, nwbfile, md, options, aligned_starting_time) ==
    AddAligned(temporally_align_data_interfaces(c, aligned_starting_time), nwbfile, md, options)

----------------------------------------------------------------------------
(* The converter subsystem: one converter over the files of one session,   *)
(* aligned and added to one document.                                      *)

TtlTimes == [i \in 1..TtlLen |-> 10 + i]
Alternating == [i \in 1..TtlLen |-> (i + 1) % 2]
Step == [i \in 1..TtlLen |-> IF 2 * i > TtlLen THEN 1 ELSE 0]
TtlFiles ==
    {[timestamp |-> TtlTimes, ttlIn1 |-> Alternating, ttlIn3 |-> t[1], ttlIn4 |-> t[2]] : t \in { <<Alternating, Step>>, <<Step, Alternating>> }}

BehaviorFiles ==
    {[timestamp |-> Some(<<3, 4, 5>>), orig_frame_numbers |-> None],
     [timestamp |-> None, orig_frame_numbers |-> None]}

\* Behavior files with a binary signal: a lick trace that rises and falls,
\* one that rises and never falls, and a light that never goes off.
LickBehaviorFiles ==
    {[timestamp |-> Some(<<3, 4, 5>>), orig_frame_numbers |-> None, lick |-> lick] :
        lick \in { <<0, 1, 0>>, <<0, 1, 1>> }}
    \cup {[timestamp |-> Some(<<3, 4, 5>>), orig_frame_numbers |-> None, stimulus_led2 |-> <<0, 1, 1>>]}

\* File paths of videos: the directories, then the file name.
VideoPaths ==
    { << <<"data">>, <<"m1", "body", "cam">> >>,
      << <<"data">>, <<"m1", "lick">> >>,
      << <<"data">>, <<"m1", "cam">> >>,
      << <<"desk", "top">>, <<"m1", "cam">> >>,
      << <<"in", "side">>, <<"m1", "cam">> >>,
      << <<"top">>, <<"m1", "lick">> >> }

Video(key, path) == [key |-> key, path |-> path, timestamps |-> None, stream |-> None]

VideoConfigs ==
    { <<>> } \cup { <<Video("Video1", p)>> : p \in VideoPaths }
    \cup { <<Video("Video1", << <<"data">>, <<"m1", "body", "cam">> >>), Video("Video2", p)>> : p \in VideoPaths }

FullFile == [F |-> Some(MaxFibers), F_baseline |-> TRUE, Fc |-> TRUE, frames |-> 3]

\* Vu2024NWBConverter(source_data): the interfaces as constructed.
NewConverter(has, times, behavior_file, videos, ttl, ttl_stream_name) ==
    [has |-> has,
     imaging |-> [times |-> times],
     processed |-> [times |-> [i \in DOMAIN times |-> i - 1]],
     fiber_photometry |-> [timestamps |-> None, ttl_stream_name |-> ttl_stream_name, file |-> FullFile],
     behavior |-> [timestamps |-> None, file |-> behavior_file],
     videos |-> videos, ttl |-> ttl, aligned |-> FALSE]

\* The timestamps of the imaging extractor: as many as the file has
\* frames, also fewer than a video's TTL channel has rising edges.
ImagingTimes == Timestamps \cup { <<0>> }

Converters ==
    {NewConverter(has, times, bf, videos, ttl, "ttlIn1") :
        has \in SUBSET {"Behavior", "ProcessedImaging"}, times \in ImagingTimes,
        bf \in BehaviorFiles \cup LickBehaviorFiles, videos \in VideoConfigs, ttl \in TtlFiles}

NoCall == [op |-> "init", err |-> "ok"]
NoSession == [op |-> "init", err |-> "ok"]
NoUnit == [kind |-> "none"]

NoConverter == [aligned |-> FALSE]

NoConverterInit ==
    /\ conv = NoConverter
    /\ cpre = NoConverter
    /\ clast = NoCall
    /\ cOps = 0
    /\ sess = NoSession

\* No single component is under study.
NoUnitInit ==
    /\ unit = NoUnit
    /\ ret = NoCall

StartingTimes == {None} \cup {Some(t) : t \in 1..MaxStart}

ConverterInit ==
    /\ doc = EmptyDoc
    /\ mds = [wl \in Wavelengths |-> SessionMetadata(wl)]
    /\ env \in [nlocs : 1..MaxFibers, stub_test : {FALSE}, wl : {470}]
    /\ pre = EmptyDoc
    /\ last = [op |-> "init", err |-> "ok"]
    /\ nOps = 0
    /\ conv \in {c \in Converters : "Behavior" \notin c.has => c.behavior.file.timestamp # None}
    /\ cpre = conv
    /\ clast = NoCall
    /\ cOps = 0
    /\ sess = NoSession
    /\ NoUnitInit

\* A caller aligns the converter's interfaces.
ConvAlign ==
    /\ cOps < MaxConvOps
    /\ \E aligned_starting_time \in StartingTimes :
          \E r \in {temporally_align_data_interfaces(conv, aligned_starting_time)} :
             /\ conv' = r.conv
             /\ clast' = [op |-> "temporally_align_data_interfaces", err |-> r.err, aligned_starting_time |-> aligned_starting_time, reads |-> <<>>]
    /\ cpre' = conv
    /\ cOps' = cOps + 1
    /\ UNCHANGED <<docVars, sess, unitVars>>

\* A caller has the converter add its interfaces to the document, with
\* the metadata of one wavelength.
ConvAdd ==
    /\ cOps < MaxConvOps
    /\ \E wl \in Wavelengths, aligned_starting_time \in StartingTimes :
          \E r \in {Converter_add_to_nwbfile(conv, doc, mds[wl], [fiber_locations_metadata |-> Locations(env.nlocs), stub_test |-> env.stub_test], aligned_starting_time)} :
             /\ conv' = r.conv
             /\ doc' = r.doc
             /\ mds' = [mds EXCEPT ![wl] = r.md]
             /\ clast' = [op |-> "add_to_nwbfile", err |-> r.err, wl |-> wl, aligned_starting_time |-> aligned_starting_time, reads |-> r.reads]
    /\ cpre' = conv
    /\ pre' = doc
    /\ cOps' = cOps + 1
    /\ UNCHANGED <<env, last, nOps, sess, unitVars>>

ConverterNext == ConvAlign \/ ConvAdd
SpecConverter == ConverterInit /\ [][ConverterNext]_vars

----------------------------------------------------------------------------
(* The session functions.  A call builds its converter from the files it   *)
(* is given; the document is the in-memory NWB file the caller holds.      *)

SOut(c, d, e) == [conv |-> c, doc |-> d, err |-> e]

\* The parameters single_wavelength_session_to_nwb declares.
SingleParameters ==
    {"raw_imaging_file_path", "raw_fiber_photometry_file_path", "fiber_locations_file_path",
     "excitation_wavelength_in_nm", "indicator", "ttl_file_path", "ttl_stream_name",
     "behavior_file_path", "motion_corrected_imaging_file_path", "frame_indices",
     "nwbfile_path", "nwbfile", "sampling_frequency", "subject_metadata",
     "aligned_starting_time", "stub_test"}

\* The optional interfaces of the source data.
SourceHas(behavior_file_path, motion_corrected) ==
    (IF behavior_file_path # None THEN {"Behavior"} ELSE {})
    \cup (IF motion_corrected THEN {"ProcessedImaging"} ELSE {})

\* Lines 231-244: the document returned, or the exception; a document
\* passed in holds whatever was written before an exception.
SingleOutcome(r, nwbfile) ==
    IF r.err = "ok" \/ nwbfile # None THEN SOut(r.conv, Some(r.doc), r.err)
    ELSE SOut(r.conv, None, r.err)

\* Lines 231-239: without a document the converter creates one, and
\* create_nwbfile has no starting time to hand to the alignment.
ConvertWith(converter, metadata, options, nwbfile, aligned_starting_time) ==
    SingleOutcome(
       Converter_add_to_nwbfile(converter, IF nwbfile = None THEN EmptyDoc ELSE The(nwbfile), metadata, options, IF nwbfile = None THEN None ELSE aligned_starting_time),
       nwbfile)

\* single_wavelength_session_to_nwb.  files are the session's recordings;
\* nwbfile is None or the caller's document, which the call writes into.
single_wavelength_session_to_nwb(files, wl, behavior_file_path, motion_corrected, nwbfile, aligned_starting_time, stub_test) ==
    IF behavior_file_path = None /\ aligned_starting_time = None
    THEN SOut(NoConverter, nwbfile, "ValueError")
    ELSE IF wl \notin Wavelengths
    THEN SOut(NewConverter(SourceHas(behavior_file_path, motion_corrected), files.times,
                           IF behavior_file_path # None THEN The(behavior_file_path) ELSE [timestamp |-> None, orig_frame_numbers |-> None],
                           files.videos, files.ttl, files.ttl_stream_name),
              nwbfile, "KeyError")
    ELSE ConvertWith(
            NewConverter(SourceHas(behavior_file_path, motion_corrected), files.times,
                         IF behavior_file_path # None THEN The(behavior_file_path) ELSE [timestamp |-> None, orig_frame_numbers |-> None],
                         files.videos, files.ttl, files.ttl_stream_name),
            SessionMetadata(wl),
            [fiber_locations_metadata |-> files.fiber_locations_metadata, stub_test |-> stub_test],
            nwbfile, aligned_starting_time)

\* A call of single_wavelength_session_to_nwb by keywords: an undeclared
\* keyword is a TypeError before the body runs.
CallSingle(keywords, files, wl, behavior_file_path, motion_corrected, nwbfile, aligned_starting_time, stub_test) ==
    IF ~(keywords \subseteq SingleParameters) THEN SOut(NoConverter, nwbfile, "TypeError")
    ELSE single_wavelength_session_to_nwb(files, wl, behavior_file_path, motion_corrected, nwbfile, aligned_starting_time, stub_test)

\* Lines 74-88 and 93-107: the keywords of the two calls.
FirstKeywords ==
    {"raw_imaging_file_path", "frame_indices", "raw_fiber_photometry_file_path",
     "fiber_locations_file_path", "excitation_wavelength_in_nm", "indicator", "ttl_file_path",
     "ttl_stream_name", "motion_corrected_imaging_file_path", "behavior_file_path",
     "subject_metadata", "excitation_mode", "stub_test"}
SecondKeywords ==
    {"raw_imaging_file_path", "frame_indices", "aligned_starting_time",
     "raw_fiber_photometry_file_path", "fiber_locations_file_path",
     "excitation_wavelength_in_nm", "indicator", "ttl_file_path", "ttl_stream_name",
     "motion_corrected_imaging_file_path", "nwbfile", "nwbfile_path", "excitation_mode",
     "stub_test"}

\* Lines 88-105: the second wavelength, added to the document of the
\* first at the first timestamp of the second behavior file.
SecondWavelength(first, files, wl, second_behavior_data, motion_corrected, stub_test) ==
    IF first.err # "ok" THEN SOut(first.conv, None, first.err)
    ELSE IF second_behavior_data.timestamp = None THEN SOut(first.conv, None, "KeyError")
    ELSE CallSingle(SecondKeywords, files, wl, None, motion_corrected, first.doc, Some(The(second_behavior_data.timestamp)[1]), stub_test)

\* Lines 59-105, with the behavior files at hand.
DualWith(files, wls, paths, shared, motion_corrected, stub_test) ==
    IF Len(paths) < 2 THEN SOut(NoConverter, None, "IndexError")
    ELSE IF shared /\ Len(paths) # 2 THEN SOut(NoConverter, None, "ValueError")
    ELSE IF shared /\ paths[1].orig_frame_numbers = None THEN SOut(NoConverter, None, "ValueError")
    ELSE IF shared /\ paths[2].orig_frame_numbers = None THEN SOut(NoConverter, None, "KeyError")
    ELSE SecondWavelength(
            CallSingle(FirstKeywords, files, wls[1], Some(paths[1]), motion_corrected, None, None, stub_test),
            files, wls[2], paths[2], motion_corrected, stub_test)

\* dual_wavelength_session_to_nwb.  behavior_file_paths is None or the
\* sequence of the behavior files; shared says that both wavelengths come
\* from one imaging file.
dual_wavelength_session_to_nwb(files, wls, behavior_file_paths, shared, motion_corrected, stub_test) ==
    IF behavior_file_paths = None THEN SOut(NoConverter, None, "TypeError")
    ELSE DualWith(files, wls, The(behavior_file_paths), shared, motion_corrected, stub_test)

\* How often the output file was written by the two calls: a call writes
\* (line 244) when it has an nwbfile_path and has not raised, and the
\* second is made only when the first has returned.
FilesWritten(r) ==
    IF r.err # "ok" THEN 0
    ELSE Cardinality({keywords \in {FirstKeywords, SecondKeywords} : "nwbfile_path" \in keywords})

SessionFiles ==
    {[times |-> times, ttl |-> ttl, ttl_stream_name |-> "ttlIn1", videos |-> videos, motion_corrected |-> mc, fiber_locations_metadata |-> Locations(MaxFibers)] :
        times \in Timestamps, ttl \in TtlFiles, mc \in BOOLEAN,
        videos \in { <<>>, <<Video("Video1", << <<"data">>, <<"m1", "body", "cam">> >>)>> }}

DualBehaviorFiles ==
    BehaviorFiles \cup {[timestamp |-> Some(<<3, 4, 5>>), orig_frame_numbers |-> Some(<<1, 2, 3>>)]}

SessionInit ==
    /\ doc = EmptyDoc
    /\ mds = [wl \in Wavelengths |-> SessionMetadata(wl)]
    /\ env \in [nlocs : {MaxFibers}, stub_test : {FALSE}, wl : {470}, files : SessionFiles]
    /\ pre = EmptyDoc
    /\ last = [op |-> "init", err |-> "ok"]
    /\ nOps = 0
    /\ conv = NoConverter
    /\ cpre = NoConverter
    /\ clast = NoCall
    /\ cOps = 0
    /\ sess = NoSession
    /\ NoUnitInit

\* A caller converts one wavelength, into a new document or into the one
\* it holds.
SessionSingle ==
    /\ cOps < MaxSessionOps
    /\ \E wl \in Wavelengths \cup {600}, behavior_file_path \in {None} \cup {Some(bf) : bf \in BehaviorFiles \cup LickBehaviorFiles}, given \in BOOLEAN, aligned_starting_time \in StartingTimes :
          \E r \in {single_wavelength_session_to_nwb(env.files, wl, behavior_file_path, env.files.motion_corrected, IF given THEN Some(doc) ELSE None, aligned_starting_time, env.stub_test)} :
             /\ conv' = r.conv
             /\ doc' = IF r.doc # None THEN The(r.doc) ELSE doc
             /\ sess' = [op |-> "single_wavelength_session_to_nwb", err |-> r.err, times |-> env.files.times, has_behavior |-> behavior_file_path # None, behavior_file_paths |-> behavior_file_path, given |-> given, aligned_starting_time |-> aligned_starting_time]
    /\ pre' = doc
    /\ cOps' = cOps + 1
    /\ UNCHANGED <<mds, env, last, nOps, cpre, clast, unitVars>>

\* A caller converts a session of two wavelengths.
SessionDual ==
    /\ cOps < MaxSessionOps
    /\ \E behavior_file_paths \in {None} \cup {Some(<<a, b>>) : a, b \in DualBehaviorFiles}, shared \in BOOLEAN :
          \E r \in {dual_wavelength_session_to_nwb(env.files, <<470, 570>>, behavior_file_paths, shared, env.files.motion_corrected, env.stub_test)} :
             /\ conv' = r.conv
             /\ doc' = IF r.doc # None THEN The(r.doc) ELSE doc
             /\ sess' = [op |-> "dual_wavelength_session_to_nwb", err |-> r.err, times |-> env.files.times, has_behavior |-> behavior_file_paths # None, behavior_file_paths |-> behavior_file_paths, given |-> FALSE, aligned_starting_time |-> None, written |-> FilesWritten(r)]
    /\ pre' = doc
    /\ cOps' = cOps + 1
    /\ UNCHANGED <<mds, env, last, nOps, cpre, clast, unitVars>>

SessionNext == SessionSingle \/ SessionDual
SpecSession == SessionInit /\ [][SessionNext]_vars

----------------------------------------------------------------------------
\* The caller's API: devices and series added directly.
SeriesInit == DocInit({470}, {FALSE}) /\ NoConverterInit /\ NoUnitInit
SeriesNext == DocAddDevice \/ DocAddSeries
SpecSeries == SeriesInit /\ [][SeriesNext]_vars

\* The interface's use of that API, one call per wavelength and file.
InterfaceInit == DocInit({470}, BOOLEAN) /\ NoConverterInit /\ NoUnitInit
InterfaceNext == DocInterfaceAdd
SpecInterface == InterfaceInit /\ [][InterfaceNext]_vars

----------------------------------------------------------------------------
(* The imaging extractor, CxdImagingExtractor.__init__.  A file is what    *)
(* its OME metadata says: the frame, channel and plane counts, the         *)
(* sampling frequency (None when the metadata has none) and whether the    *)
(* planes carry timestamps.  Native frames are numbered from 0; channel    *)
(* and plane names are their indices.                                      *)

MaxFrames == 2
NativeFrequency == 20

CxdFiles == [cxd : BOOLEAN, num_frames : 1..MaxFrames, num_channels : 1..2, num_planes : 1..2, sampling_frequency : {None, Some(NativeFrequency)}, has_times : BOOLEAN]

\* The frame_indices a caller may pass: None or a list of frame numbers,
\* also an empty one, one longer than the file and one that names a frame
\* the file does not have.
FrameIndexLists == UNION {[1..n -> 0..MaxFrames] : n \in 0..(MaxFrames + 1)}

Failed(err) == [kind |-> "failed", err |-> err]

\* A faulty variant of Halved: the frequency is left as read.
HalvedNever(file, frame_indices) ==
    Some(file.sampling_frequency)

\* Lines 118-119: the frequency read from the metadata is halved when
\* frame_indices is given; None / 2 is a TypeError (None here).
Halved(file, frame_indices) ==
    IF frame_indices = None THEN Some(file.sampling_frequency)
    ELSE IF file.sampling_frequency = None THEN None
    ELSE Some(Some(The(file.sampling_frequency) \div 2))

\* Lines 170-177: the frames selected by frame_indices.
SelectFrames(file, frequency, frame_indices) ==
    IF frame_indices = None
    THEN [kind |-> "extractor", err |-> "ok", num_frames |-> file.num_frames,
          sampling_frequency |-> frequency, video |-> Range(file.num_frames)]
    ELSE IF Len(The(frame_indices)) = 0 THEN Failed("AssertionError")
    ELSE IF Len(The(frame_indices)) > file.num_frames THEN Failed("AssertionError")
    ELSE IF Take(Range(file.num_frames), The(frame_indices)) = None THEN Failed("IndexError")
    ELSE IF ~file.has_times THEN Failed("AttributeError")
    ELSE [kind |-> "extractor", err |-> "ok", num_frames |-> Len(The(frame_indices)),
          sampling_frequency |-> frequency, video |-> The(frame_indices)]

\* Lines 123-160: the channel, the plane and the sampling frequency.
SelectChannel(file, halved, channel_name, plane_name, sampling_frequency, frame_indices) ==
    IF halved = None THEN Failed("TypeError")
    ELSE IF channel_name = None /\ file.num_channels > 1 THEN Failed("ValueError")
    ELSE IF channel_name # None /\ The(channel_name) \notin 0..(file.num_channels - 1) THEN Failed("ValueError")
    ELSE IF plane_name = None /\ file.num_planes > 1 THEN Failed("ValueError")
    ELSE IF plane_name # None /\ The(plane_name) \notin 0..(file.num_planes - 1) THEN Failed("ValueError")
    ELSE IF The(halved) = None /\ sampling_frequency = None THEN Failed("ValueError")
    ELSE SelectFrames(file, IF The(halved) = None THEN The(sampling_frequency) ELSE The(The(halved)), frame_indices)

\* CxdImagingExtractor.__init__.
CxdImagingExtractor(file, channel_name, plane_name, sampling_frequency, frame_indices) ==
    IF ~file.cxd THEN Failed("ValueError")
    ELSE SelectChannel(file, Halved(file, frame_indices), channel_name, plane_name, sampling_frequency, frame_indices)

ExtractorInit ==
    /\ unit \in {[kind |-> "file", file |-> f] : f \in CxdFiles}
    /\ ret = NoCall

\* A caller constructs the extractor of the file.
Construct ==
    /\ unit.kind = "file"
    /\ \E channel_name \in {None, Some(0), Some(2)}, plane_name \in {None, Some(0)}, sampling_frequency \in {None, Some(30)}, frame_indices \in {None} \cup {Some(l) : l \in FrameIndexLists} :
          /\ unit' = CxdImagingExtractor(unit.file, channel_name, plane_name, sampling_frequency, frame_indices)
          /\ ret' = [op |-> "CxdImagingExtractor", file |-> unit.file, sampling_frequency |-> sampling_frequency, frame_indices |-> frame_indices]
    /\ UNCHANGED <<docVars, convVars>>

----------------------------------------------------------------------------
(* The behavior interface's add_binary_signals, for a behavior file that   *)
(* holds a lick trace, and possibly a reward pulse, next to its            *)
(* timestamps.                                                             *)

EventLen == 9

\* The other signals of the file: none, or a reward on the second sample.
OtherSignals(n) ==
    IF n < 3 THEN { <<>> }
    ELSE { <<>>, [reward |-> [i \in 1..n |-> IF i = 2 THEN 1 ELSE 0]] }

EventsInit ==
    /\ \E n \in 1..EventLen, scale \in 1..2 :
          \E event_data \in [1..n -> {0, 1}], others \in OtherSignals(n) :
             unit = [kind |-> "behavior_file", file |-> [lick |-> event_data] @@ others,
                     timestamp |-> [i \in 1..n |-> scale * (i - 1)]]
    /\ ret = NoCall

\* The behavior interface adds the binary signals of its file.
AddBinarySignals ==
    /\ ret = NoCall
    /\ \E r \in {add_binary_signals(unit.file, unit.timestamp)} :
          ret' = [op |-> "add_binary_signals", err |-> r.err, intervals |-> r.intervals]
    /\ UNCHANGED <<docVars, convVars, unit>>

----------------------------------------------------------------------------
(* The timestamps of the fiber photometry and the behavior interface: the  *)
(* native ones read from the files, and the aligned ones once set.  The    *)
(* TTL file holds one pulse trace next to its timestamp array, which may   *)
(* be shorter or longer than the trace.                                    *)

PulseLen == 5
BehaviorStubFrames == 6000

Streams == {"fiber_photometry", "behavior"}
StubOf(stream) == IF stream = "behavior" THEN BehaviorStubFrames ELSE StubFrames

\* A faulty variant of set_aligned_timestamps: the array is dropped.
set_aligned_timestamps_dropped(interface, aligned_timestamps) ==
    interface

\* set_aligned_timestamps of either interface.
set_aligned_timestamps(interface, aligned_timestamps) ==
    [interface EXCEPT !.timestamps = Some(aligned_timestamps)]

\* Vu2024BehaviorInterface.get_timestamps(stub_test); None is the
\* ValueError of the original read.
Behavior_get_timestamps_stub(behavior, stub_test) ==
    IF Behavior_get_timestamps(behavior) = None THEN None
    ELSE IF stub_test THEN Some(Prefix(The(Behavior_get_timestamps(behavior)), BehaviorStubFrames))
    ELSE Behavior_get_timestamps(behavior)

\* get_original_timestamps and get_timestamps of the named interface.
OriginalTimestamps(u, stream) ==
    IF stream = "behavior" THEN u.behavior.file.timestamp
    ELSE FiberPhotometry_get_original_timestamps(u)

GetTimestamps(u, stream, stub_test) ==
    IF stream = "behavior" THEN Behavior_get_timestamps_stub(u.behavior, stub_test)
    ELSE FiberPhotometry_get_timestamps(u, stub_test)

ReadError(stream) == IF stream = "behavior" THEN "ValueError" ELSE "IndexError"

\* What a read returned: the array, or the error of the original read.
ReadResult(op, stream, stub_test, timestamps) ==
    [op |-> op, stream |-> stream, stub_test |-> stub_test,
     err |-> IF timestamps = None THEN ReadError(stream) ELSE "ok",
     timestamps |-> timestamps]

\* The arrays an alignment may hand to an interface: an empty one, a
\* short one and one longer than the interface's stub length.
AlignedArrays(stream) ==
    { <<>>, <<7, 8, 9>>, [i \in 1..(StubOf(stream) + 1) |-> i] }

\* The interfaces as constructed on a TTL file with one of the traces,
\* its timestamp array longer than the trace by one of the deltas.
InterfacesInit(traces, deltas) ==
    /\ \E trace \in traces, delta \in deltas, start \in {0, 5}, behavior_file \in BehaviorFiles :
             unit = [kind |-> "interfaces",
                     ttl |-> [timestamp |-> [i \in 1..(Len(trace) + delta) |-> start + i - 1], ttlIn1 |-> trace],
                     fiber_photometry |-> [timestamps |-> None, ttl_stream_name |-> "ttlIn1"],
                     behavior |-> [timestamps |-> None, file |-> behavior_file],
                     aligned |-> [stream \in Streams |-> None]]
    /\ ret = NoCall

\* A caller reads the original timestamps of an interface.
StreamGetOriginal ==
    /\ \E stream \in Streams :
          ret' = ReadResult("get_original_timestamps", stream, FALSE, OriginalTimestamps(unit, stream))
    /\ UNCHANGED <<docVars, convVars, unit>>

\* A caller reads the timestamps of an interface.
StreamGet ==
    /\ \E stream \in Streams, stub_test \in BOOLEAN :
          ret' = ReadResult("get_timestamps", stream, stub_test, GetTimestamps(unit, stream, stub_test))
    /\ UNCHANGED <<docVars, convVars, unit>>

\* A caller sets the aligned timestamps of an interface; unit.aligned
\* remembers the array handed over (history).
StreamSet ==
    /\ \E stream \in Streams :
          \E aligned_timestamps \in AlignedArrays(stream) :
             /\ unit' = [unit EXCEPT ![stream] = set_aligned_timestamps(@, aligned_timestamps),
                                     !.aligned[stream] = Some(aligned_timestamps)]
             /\ ret' = [op |-> "set_aligned_timestamps", stream |-> stream, stub_test |-> FALSE, err |-> "ok", timestamps |-> None]
    /\ UNCHANGED <<docVars, convVars>>

----------------------------------------------------------------------------
(* The batch drivers.  A group of the data table (the rows of one subject  *)
(* and date; one row for convert_all_single_wavelength_sessions) is        *)
(* described by what is wrong with its session, if anything, by its number *)
(* of wavelengths, and by whether its wavelengths share one imaging file.  *)

BatchLen == 2

\* "no_processed_behavior" is the processed behavior file of the first
\* row of the group, "no_second_processed_behavior" that of the second;
\* "tif_count_mismatch" is a session folder whose motion corrected files
\* are neither none nor as many as the raw imaging files.
Defects ==
    {"unknown_subject", "no_raw_behavior", "no_cxd", "no_processed_behavior",
     "no_second_processed_behavior", "tif_count_mismatch",
     "no_fiber_photometry", "no_fiber_locations", "unknown_indicator",
     "unknown_ttl_stream", "nwb_exists"}

Rows ==
    {row \in [defects : {{}} \cup {{d} : d \in Defects}, wavelengths : 1..2, shared : BOOLEAN] :
        row.wavelengths = 1 => (~row.shared /\ "no_second_processed_behavior" \notin row.defects)}

Converted == [outcome |-> "converted", err |-> "ok"]
Skipped == [outcome |-> "skipped", err |-> "ok"]
Warned == [outcome |-> "warned", err |-> "ok"]
Raised(err) == [outcome |-> "raised", err |-> err]

\* The keywords of the drivers' calls of single_wavelength_session_to_nwb.
DriverKeywords ==
    {"raw_imaging_file_path", "motion_corrected_imaging_file_path",
     "raw_fiber_photometry_file_path", "fiber_locations_file_path",
     "excitation_wavelength_in_nm", "indicator", "ttl_file_path", "ttl_stream_name",
     "behavior_file_path", "nwbfile_path", "subject_metadata", "stub_test"}

\* convert_all_single_wavelength_sessions, lines 70-165: one row.
SingleWavelengthRow(row, overwrite) ==
    IF "unknown_subject" \in row.defects THEN Raised("ValueError")
    ELSE IF "no_raw_behavior" \in row.defects THEN Warned
    ELSE IF "no_cxd" \in row.defects THEN Warned
    ELSE IF "no_processed_behavior" \in row.defects THEN Warned
    ELSE IF "no_fiber_photometry" \in row.defects THEN Warned
    ELSE IF "no_fiber_locations" \in row.defects THEN Warned
    ELSE IF "unknown_indicator" \in row.defects THEN Raised("ValueError")
    ELSE IF "unknown_ttl_stream" \in row.defects THEN Raised("ValueError")
    ELSE IF "nwb_exists" \in row.defects /\ ~overwrite THEN Skipped
    ELSE IF ~(DriverKeywords \subseteq SingleParameters) THEN Raised("TypeError")
    ELSE Converted

\* dual_wavelength_session_to_nwb, lines 56-86, on the files of a group.
\* globbed: the fiber photometry files were searched for in the session
\* folder, so that a missing one leaves the list empty.  Line 60 reads the
\* second behavior file, line 65 the first one when the imaging file is
\* shared; the arguments of the first call are evaluated (line 75) before
\* the call is refused for its undeclared keyword.
DualGroup(row, globbed) ==
    IF row.wavelengths < 2 THEN Raised("IndexError")
    ELSE IF "no_second_processed_behavior" \in row.defects THEN Raised("FileNotFoundError")
    ELSE IF row.shared /\ "no_processed_behavior" \in row.defects THEN Raised("FileNotFoundError")
    ELSE IF globbed /\ "no_fiber_photometry" \in row.defects THEN Raised("IndexError")
    ELSE IF ~(FirstKeywords \subseteq SingleParameters) THEN Raised("TypeError")
    ELSE IF row.defects \cap {"no_cxd", "no_processed_behavior", "no_fiber_photometry"} # {} THEN Raised("FileNotFoundError")
    ELSE Converted

\* convert_all_sessions, lines 152-181: the conversion of one group.
ConvertGroup(row) ==
    IF row.wavelengths = 2 THEN DualGroup(row, TRUE)
    ELSE IF "no_fiber_photometry" \in row.defects THEN Raised("IndexError")
    ELSE IF ~(DriverKeywords \subseteq SingleParameters) THEN Raised("TypeError")
    ELSE IF "no_processed_behavior" \in row.defects THEN Raised("FileNotFoundError")
    ELSE Converted

\* convert_all_sessions, lines 60-182: one group.
AllSessionsRow(row, overwrite) ==
    IF "unknown_subject" \in row.defects THEN Raised("IndexError")
    ELSE IF "no_raw_behavior" \in row.defects THEN Raised("FileNotFoundError")
    ELSE IF "no_cxd" \in row.defects THEN Raised("FileNotFoundError")
    ELSE IF "unknown_ttl_stream" \in row.defects THEN Raised("ValueError")
    ELSE IF "tif_count_mismatch" \in row.defects THEN Raised("ValueError")
    ELSE IF "no_fiber_locations" \in row.defects THEN Raised("FileNotFoundError")
    ELSE IF "unknown_indicator" \in row.defects THEN Raised("ValueError")
    ELSE IF "nwb_exists" \in row.defects /\ ~overwrite THEN Skipped
    ELSE ConvertGroup(row)

\* convert_all_dual_wavelength_sessions, lines 68-142: one group.  The
\* imaging, processed behavior and fiber photometry paths come from the
\* table's columns and are not tested here.
DualWavelengthRow(row, overwrite) ==
    IF "unknown_subject" \in row.defects THEN Raised("ValueError")
    ELSE IF "no_raw_behavior" \in row.defects THEN Warned
    ELSE IF "tif_count_mismatch" \in row.defects THEN Raised("ValueError")
    ELSE IF "no_fiber_locations" \in row.defects THEN Warned
    ELSE IF "unknown_indicator" \in row.defects THEN Raised("ValueError")
    ELSE IF "unknown_ttl_stream" \in row.defects THEN Raised("ValueError")
    ELSE IF "nwb_exists" \in row.defects /\ ~overwrite THEN Skipped
    ELSE DualGroup(row, FALSE)

BatchDrivers ==
    {"convert_all_single_wavelength_sessions", "convert_all_dual_wavelength_sessions", "convert_all_sessions"}

BatchInit ==
    /\ \E driver \in BatchDrivers, overwrite \in BOOLEAN :
          \E rows \in [1..BatchLen -> Rows] :
             /\ driver = "convert_all_single_wavelength_sessions" => \A i \in 1..BatchLen : rows[i].wavelengths = 1
             /\ unit = [kind |-> "batch", driver |-> driver, overwrite |-> overwrite, rows |-> rows, done |-> <<>>, err |-> "ok"]
    /\ ret = NoCall

\* The loop of a driver has a next row; an exception has ended the loop.
BatchRunning(driver) ==
    /\ unit.kind = "batch" /\ unit.driver = driver
    /\ unit.err = "ok"
    /\ Len(unit.done) < Len(unit.rows)

BatchStep(driver, r) ==
    /\ unit' = [unit EXCEPT !.done = Append(@, r.outcome), !.err = r.err]
    /\ ret' = [op |-> driver, err |-> r.err]
    /\ UNCHANGED <<docVars, convVars>>

SingleWavelengthStep ==
    /\ BatchRunning("convert_all_single_wavelength_sessions")
    /\ \E r \in {SingleWavelengthRow(unit.rows[Len(unit.done) + 1], unit.overwrite)} :
          BatchStep("convert_all_single_wavelength_sessions", r)

AllSessionsStep ==
    /\ BatchRunning("convert_all_sessions")
    /\ \E r \in {AllSessionsRow(unit.rows[Len(unit.done) + 1], unit.overwrite)} :
          BatchStep("convert_all_sessions", r)

DualWavelengthStep ==
    /\ BatchRunning("convert_all_dual_wavelength_sessions")
    /\ \E r \in {DualWavelengthRow(unit.rows[Len(unit.done) + 1], unit.overwrite)} :
          BatchStep("convert_all_dual_wavelength_sessions", r)

----------------------------------------------------------------------------
(* A stub run: the two interfaces' add_to_nwbfile on files longer than     *)
(* their stub lengths, and the stub_test a batch driver hands on to the    *)
(* session conversion.                                                     *)

StubMargin == 1

\* A behavior file of n samples: the lick trace is 1 on the 0-based
\* samples rise .. fall - 1.
LongBehaviorFile(n, rise, fall) ==
    [timestamp |-> Some(Range(n)), orig_frame_numbers |-> None,
     ballYaw |-> [i \in 1..n |-> i % 3],
     ballRoll |-> [i \in 1..n |-> i % 2],
     ballPitch |-> [i \in 1..n |-> 1],
     lick |-> [i \in 1..n |-> IF rise < i /\ i <= fall THEN 1 ELSE 0]]

\* Line 153: the default ball diameter, 0.2032 m.  Lengths are counted in
\* tenths of a millimetre.
BallDiameter == 2032

\* add_velocity_signals, lines 135-171: the two series in the order they
\* are added.  `ball_diameter_in_meters or 0.2032` is the default for None
\* and for 0; yaw / (pi * d) * 2 * pi is the fraction 2 * yaw / d; the
\* data of "Velocity" are the rows of column_stack((ballRoll, ballPitch)),
\* and its timestamps are those of "AngularVelocity" (a link to it).
add_velocity_signals(behavior, ball_diameter_in_meters, stub_test) ==
    LET yaw_in_meters == IF stub_test THEN Prefix(behavior.file.ballYaw, BehaviorStubFrames) ELSE behavior.file.ballYaw
        velocity_in_meters == [i \in DOMAIN behavior.file.ballRoll |-> <<behavior.file.ballRoll[i], behavior.file.ballPitch[i]>>]
        timestamps == The(Behavior_get_timestamps_stub(behavior, stub_test))
        diameter == IF ball_diameter_in_meters \in {None, Some(0)} THEN BallDiameter ELSE The(ball_diameter_in_meters)
    IN << [name |-> "AngularVelocity", unit |-> "radians/s",
           data |-> [i \in DOMAIN yaw_in_meters |-> [num |-> 2 * yaw_in_meters[i], den |-> diameter]],
           timestamps |-> timestamps],
          [name |-> "Velocity", unit |-> "m/s",
           data |-> IF stub_test THEN Prefix(velocity_in_meters, BehaviorStubFrames) ELSE velocity_in_meters,
           timestamps |-> timestamps] >>

\* Vu2024BehaviorInterface.add_to_nwbfile, lines 250-264: stub_test goes to
\* add_velocity_signals only; add_binary_signals takes no stub_test and
\* reads get_timestamps() and the event traces of the file.  A file
\* without timestamps is the ValueError of line 47, raised from line 141
\* before any series is made.
Behavior_add_to_nwbfile(behavior, stub_test, ball_diameter_in_meters) ==
    IF Behavior_get_timestamps(behavior) = None
    THEN [velocity |-> <<>>, events |-> Intervals("ValueError", None)]
    ELSE [velocity |-> add_velocity_signals(behavior, ball_diameter_in_meters, stub_test),
          events |-> add_binary_signals(behavior.file, The(Behavior_get_timestamps(behavior)))]

\* The keywords of convert_all_dual_wavelength_sessions' call of
\* dual_wavelength_session_to_nwb, lines 130-142.
DualDriverKeywords ==
    {"raw_imaging_file_paths", "motion_corrected_imaging_file_paths",
     "fiber_photometry_file_paths", "fiber_locations_file_path",
     "excitation_wavelengths_in_nm", "indicators", "ttl_file_path", "ttl_stream_names",
     "behavior_file_paths", "nwbfile_path", "subject_metadata"}

\* The stub_test the session conversion runs with when the driver is
\* called with stub_test: the keyword's value, or the default False.
SessionStubTest(driver, stub_test) ==
    LET keywords == IF driver = "convert_all_dual_wavelength_sessions" THEN DualDriverKeywords
                    ELSE DriverKeywords
    IN IF "stub_test" \in keywords THEN stub_test ELSE FALSE

StubInit ==
    /\ \E stub_test \in BOOLEAN, driver \in BatchDrivers :
       \E n \in (BehaviorStubFrames - StubMargin)..(BehaviorStubFrames + StubMargin), frames \in (StubFrames - 1)..(StubFrames + 1) :
       \E rise \in {n - 2}, fall \in (n - 1)..n :
          unit = [kind |-> "stub_run", stub_test |-> stub_test, driver |-> driver,
                  behavior |-> [timestamps |-> None, file |-> LongBehaviorFile(n, rise, fall)],
                  fiber_photometry |-> [F |-> Some(1), F_baseline |-> TRUE, Fc |-> TRUE, frames |-> frames]]
    /\ ret = NoCall

\* The behavior interface adds its file to the document.
StubBehaviorAdd ==
    /\ unit.kind = "stub_run"
    /\ \E ball_diameter_in_meters \in {None, Some(2000)} :
          \E r \in {Behavior_add_to_nwbfile(unit.behavior, unit.stub_test, ball_diameter_in_meters)} :
             ret' = [op |-> "Behavior_add_to_nwbfile", velocity |-> r.velocity, events |-> r.events]
    /\ UNCHANGED <<docVars, convVars, unit>>

\* The fiber photometry interface cuts the series it adds.
StubFiberAdd ==
    /\ unit.kind = "stub_run"
    /\ ret' = [op |-> "FiberPhotometry_add_to_nwbfile",
               series |-> {DataToAdd(unit.fiber_photometry, src, unit.stub_test) : src \in {"F", "F_baseline", "Fc"}}]
    /\ UNCHANGED <<docVars, convVars, unit>>

\* The batch driver calls the session conversion.
StubDriverCall ==
    /\ unit.kind = "stub_run"
    /\ ret' = [op |-> unit.driver, session_stub_test |-> SessionStubTest(unit.driver, unit.stub_test)]
    /\ UNCHANGED <<docVars, convVars, unit>>

----------------------------------------------------------------------------
\* The caller's API used with metadata that lacks a record or a key.
LookupNext == LookupAddSeries
LookupStart == LookupInit /\ NoConverterInit /\ NoUnitInit
SpecLookup == LookupStart /\ [][LookupNext]_vars

\* No document is written.
NoDocumentInit ==
    /\ doc = EmptyDoc
    /\ mds = [wl \in Wavelengths |-> SessionMetadata(wl)]
    /\ env = [nlocs |-> 1, stub_test |-> FALSE, wl |-> 470]
    /\ pre = EmptyDoc
    /\ last = [op |-> "init", err |-> "ok"]
    /\ nOps = 0

\* The imaging extractor constructed on a file.
ExtractorNext == Construct
ExtractorStart == NoDocumentInit /\ NoConverterInit /\ ExtractorInit
SpecExtractor == ExtractorStart /\ [][ExtractorNext]_vars

\* The events table derived from a behavior file.
EventsNext == AddBinarySignals
EventsStart == NoDocumentInit /\ NoConverterInit /\ EventsInit
SpecEvents == EventsStart /\ [][EventsNext]_vars

\* The original timestamps read from every pulse trace up to PulseLen.
PulseInit == NoDocumentInit /\ NoConverterInit /\ InterfacesInit(UNION {[1..n -> {0, 1}] : n \in 1..PulseLen}, {-1, 0, 1})
PulseNext == StreamGetOriginal
SpecPulse == PulseInit /\ [][PulseNext]_vars

\* The two interfaces read and aligned by a caller.
StreamsInit == NoDocumentInit /\ NoConverterInit /\ InterfacesInit({Alternating, Step}, {0})
StreamsNext == StreamGetOriginal \/ StreamGet \/ StreamSet
SpecStreams == StreamsInit /\ [][StreamsNext]_vars

\* A batch driver run over a data table.
BatchNext == SingleWavelengthStep \/ AllSessionsStep \/ DualWavelengthStep
BatchStart == NoDocumentInit /\ NoConverterInit /\ BatchInit
SpecBatch == BatchStart /\ [][BatchNext]_vars

\* A stub run of the interfaces and of a batch driver.
StubNext == StubBehaviorAdd \/ StubFiberAdd \/ StubDriverCall
StubStart == NoDocumentInit /\ NoConverterInit /\ StubInit
SpecStub == StubStart /\ [][StubNext]_vars

----------------------------------------------------------------------------
(* Properties of the document subsystem.                                   *)

ContainerOf(d, parent_container) ==
    IF parent_container = "acquisition" THEN d.acquisition ELSE d.ophys

LastSeries(container) == container[Len(container)]

RawName(wl) == <<"FiberPhotometryResponseSeries">> \o SuffixWords(NameSuffix(wl))

InterfaceAdded == last.op = "add_to_nwbfile" /\ last.err = "ok"
SeriesAdded == last.op = "add_fiber_photometry_series" /\ last.err = "ok"

\* C4: device registration is idempotent and never overwrites.  Whatever
\* the operation, every device the document held before it is still there
\* unchanged, and no two devices share a name: a name registered again,
\* also with other field values or another type, keeps its first device.
C4_DeviceRegistrationIdempotent ==
    /\ pre.devices \subseteq doc.devices
    /\ \A x, y \in doc.devices : x.name = y.name => x = y

\* C4, the case: a device was registered under a name the document held
\* with other field values, and the first device is the one kept.
C4_Witness ==
    /\ last.op = "add_photometry_device"
    /\ last.err = "ok"
    /\ \E x \in pre.devices : x.name = last.name /\ x.val # last.val /\ x \in doc.devices

\* C5: a series added with add_fiber_photometry_series to a container
\* ("acquisition" or "processing/ophys") that holds a series of the same
\* fiber set takes that series' region object; no region is created and
\* no row is appended by the second add.
C5_SecondSeriesReusesRegion ==
    SeriesAdded =>
        LET old == ContainerOf(pre, last.container)
            new == LastSeries(ContainerOf(doc, last.container))
        IN \A i \in DOMAIN old :
              old[i].data.cols = new.data.cols =>
                 /\ new.region = old[i].region
                 /\ Len(doc.regions) = Len(pre.regions)
                 /\ Len(doc.rows) = Len(pre.rows)

\* C3: after the interface has added its file (raw, baseline and corrected
\* series of one fiber set) to an empty document, the fiber table holds one
\* row per column of the data.
C3_RowsEqualFibers ==
    (InterfaceAdded /\ pre = EmptyDoc) => Len(doc.rows) = The(last.file.F)

\* C3, the case: all three series of a two-fiber file were added to an
\* empty document.
C3_Witness ==
    /\ InterfaceAdded
    /\ pre = EmptyDoc
    /\ last.file.F_baseline /\ last.file.Fc
    /\ The(last.file.F) = 2
    /\ Len(doc.acquisition) = 1 /\ Len(doc.ophys) = 2
    /\ Len(doc.rows) = 2

\* The case of C2: the interface of one wavelength has added its file to a
\* document holding the raw series of the other wavelength, of as many
\* fibers, and nothing else in the fiber table.
SecondWavelengthAdded ==
    /\ InterfaceAdded
    /\ \E other \in Wavelengths \ {last.wl} :
          /\ RawName(other) \in SeriesNames(pre.acquisition)
          /\ GetSeries(pre.acquisition, RawName(other)).data.cols = The(last.file.F)
    /\ RawName(last.wl) \notin SeriesNames(pre.acquisition)
    /\ Len(pre.rows) = The(last.file.F)

\* C2: the fiber table is populated once per session.  When the two
\* wavelengths of the same fibers are added one after the other to one
\* document, the table still holds num_fibers rows after the second and
\* the second wavelength's raw series refers to the rows of the first
\* population.
C2_TablePopulatedOncePerSession ==
    SecondWavelengthAdded =>
        /\ Len(doc.rows) = The(last.file.F)
        /\ doc.regions[GetSeries(doc.acquisition, RawName(last.wl)).region] = Range(The(last.file.F))

----------------------------------------------------------------------------
(* Properties of the converter subsystem.                                  *)

\* Every timestamp the converter's interfaces hold.
TimestampsOf(c) ==
    [imaging |-> c.imaging.times, fiber_photometry |-> c.fiber_photometry.timestamps,
     processed |-> c.processed.times, behavior |-> c.behavior.timestamps,
     videos |-> [k \in DOMAIN c.videos |-> c.videos[k].timestamps]]

Aligning == clast.op \in {"temporally_align_data_interfaces", "add_to_nwbfile"}

\* C1: alignment is idempotent.  Once the converter's flag `aligned` is
\* set, a further alignment, called directly or through add_to_nwbfile,
\* returns without error and leaves every interface's timestamps and the
\* flag as they were, so the timestamps stay those of the first call.
C1_AlignmentIdempotent ==
    (Aligning /\ cpre.aligned) =>
        /\ conv.aligned
        /\ TimestampsOf(conv) = TimestampsOf(cpre)
        /\ (clast.op = "temporally_align_data_interfaces" => clast.err = "ok")

\* A second alignment, with a starting time, of an aligned converter.
C1_Witness ==
    /\ clast.op = "temporally_align_data_interfaces"
    /\ cpre.aligned
    /\ clast.aligned_starting_time # None
    /\ cOps = 2

\* C6: after a successful alignment the fiber photometry timestamps are
\* the imaging interface's aligned timestamps, and so are the processed
\* imaging's when the converter has one: same length, same values.
C6_TimestampsFollowImaging ==
    conv.aligned =>
        /\ conv.fiber_photometry.timestamps = Some(conv.imaging.times)
        /\ ("ProcessedImaging" \in conv.has => conv.processed.times = conv.imaging.times)

\* A converter with processed imaging, aligned by this call, whose imaging
\* timestamps were moved by the alignment.
C6_Witness ==
    /\ clast.op = "temporally_align_data_interfaces"
    /\ clast.err = "ok"
    /\ ~cpre.aligned /\ conv.aligned
    /\ "ProcessedImaging" \in conv.has
    /\ conv.imaging.times # cpre.imaging.times
    /\ cpre.processed.times # cpre.imaging.times

\* C7: in the converter's add_to_nwbfile the alignment has completed
\* before any interface's add_to_nwbfile reads timestamps: every read
\* happens on an aligned converter, and the fiber photometry series the
\* call creates is timed by the aligned imaging timestamps.
C7_AlignmentBeforeReads ==
    clast.op = "add_to_nwbfile" =>
        /\ \A i \in DOMAIN clast.reads : clast.reads[i].aligned
        /\ (clast.err = "ok" /\ pre.acquisition = <<>>) =>
              GetSeries(doc.acquisition, RawName(clast.wl)).timing = TimingFrom(conv.imaging.times)

\* The first add_to_nwbfile of a converter not aligned before, in which
\* every interface wrote.
C7_Witness ==
    /\ clast.op = "add_to_nwbfile"
    /\ clast.err = "ok"
    /\ ~cpre.aligned
    /\ Len(clast.reads) >= 4
    /\ Len(doc.acquisition) = 1

\* The stream the file name alone selects.
StreamOfName(video_file_path) ==
    TtlStreamFor(<<video_file_path[Len(video_file_path)]>>)

FirstAlignment ==
    clast.op = "temporally_align_data_interfaces" /\ ~cpre.aligned

\* C8: the alignment takes the behavior stream's first timestamp as the
\* starting time when there is a behavior stream and no explicit time,
\* takes the explicit time when one is supplied, and fails with
\* ValueError when there is neither.
C8_StartingTimeSelection ==
    FirstAlignment =>
        LET given == clast.aligned_starting_time
            has_behavior == "Behavior" \in cpre.has
        IN /\ (given # None /\ clast.err = "ok") =>
                 conv.imaging.times = Shifted(cpre.imaging.times, The(given))
           /\ (given = None /\ has_behavior /\ clast.err = "ok") =>
                 conv.imaging.times = Shifted(cpre.imaging.times, The(cpre.behavior.file.timestamp)[1])
           /\ (given = None /\ ~has_behavior) => clast.err = "ValueError"

\* C10: the TTL channel of a video follows from its file name, not from
\* the directories of its path: body/top/video1 in the name select ttlIn3,
\* lick/face/side/video2 select ttlIn4, and a name with neither fails the
\* alignment with ValueError.
C10_ChannelFromFileName ==
    (FirstAlignment /\ clast.err \in {"ok", "ValueError"}
        /\ (clast.aligned_starting_time # None \/ Behavior_get_timestamps(cpre.behavior) # None)) =>
        /\ \A k \in DOMAIN conv.videos :
              conv.videos[k].stream # None => conv.videos[k].stream = StreamOfName(conv.videos[k].path)
        /\ (\E k \in DOMAIN conv.videos : StreamOfName(conv.videos[k].path) = None) =>
              clast.err = "ValueError"

----------------------------------------------------------------------------
(* Properties of the session functions.                                    *)

\* C9: a dual-wavelength session without behavior logs, for which no
\* aligned starting time is supplied either, fails with the ValueError
\* that asks for one of the two, not with another error.
C9_DualWithoutBehaviorFailsWithValueError ==
    (sess.op = "dual_wavelength_session_to_nwb" /\ sess.behavior_file_paths = None) =>
        sess.err = "ValueError"

\* C15: a dual-wavelength session whose two behavior logs are complete
\* converts the second wavelength into the document that holds the first,
\* so that the document ends up with the raw series of both.
C15_SecondWavelengthMergedAfterFirst ==
    (/\ sess.op = "dual_wavelength_session_to_nwb"
     /\ sess.behavior_file_paths # None
     /\ \A i \in 1..2 : /\ The(sess.behavior_file_paths)[i].timestamp # None
                        /\ The(sess.behavior_file_paths)[i].orig_frame_numbers # None)
    => /\ sess.err = "ok"
       /\ {RawName(470), RawName(570)} \subseteq SeriesNames(doc.acquisition)

----------------------------------------------------------------------------
(* Properties of the device lookups of add_fiber_photometry_series.        *)

\* The call made last named a series the metadata has no trace for.
TraceAbsent == last.name \notin {mds[env.wl].traces[i].name : i \in DOMAIN mds[env.wl].traces}

\* C11: a call of add_fiber_photometry_series fails with ValueError when
\* the trace metadata of the named series is absent, and when the optical
\* fiber, indicator, excitation source, photodetector, dichroic mirror or
\* excitation filter that the trace names has no record in the metadata.
C11_MissingRecordFailsWithValueError ==
    (/\ last.op = "add_fiber_photometry_series"
     /\ \/ TraceAbsent
        \/ env.broken.how = "record" /\ env.broken.k \in 1..6)
    => last.err = "ValueError"

\* C12: the emission filter is optional: a call whose trace metadata has
\* no emission_filter key, or names an emission filter without a record,
\* for a listed series and a valid container still adds the series and
\* its fiber table rows.
C12_EmissionFilterOptional ==
    (/\ last.op = "add_fiber_photometry_series"
     /\ env.broken.k = 7
     /\ ~TraceAbsent
     /\ last.container \in {"acquisition", "processing/ophys"}
     /\ pre.acquisition = <<>> /\ pre.ophys = <<>>)
    => /\ last.err = "ok"
       /\ last.name \in SeriesNames(ContainerOf(doc, last.container))
       /\ Len(doc.rows) = Len(pre.rows) + last.cols

----------------------------------------------------------------------------
(* Properties of the fiber location count.                                 *)

\* Nothing of a series went into the document: no row, no series.
NothingAdded ==
    /\ doc.rows = pre.rows
    /\ doc.acquisition = pre.acquisition
    /\ doc.ophys = pre.ophys

\* C13: a call of add_fiber_photometry_series whose number of fiber
\* locations differs from the number of data columns fails with
\* ValueError, and no fiber table row or series has been added by then.
C13_CountMismatchFailsBeforeAdding ==
    (/\ last.op = "add_fiber_photometry_series"
     /\ last.cols # env.nlocs)
    => (last.err = "ValueError" /\ NothingAdded)

\* The same through the interface's add_to_nwbfile, which compares the
\* two counts itself before it adds the raw series.
C13_InterfaceRefusesCountMismatch ==
    (/\ last.op = "add_to_nwbfile"
     /\ last.file.F # None
     /\ The(last.file.F) # env.nlocs)
    => (last.err = "ValueError" /\ NothingAdded)

----------------------------------------------------------------------------
(* Properties of the imaging extractor.                                    *)

Constructed == ret.op = "CxdImagingExtractor"

\* C14: an empty frame_indices and one longer than the native frame count
\* are rejected; an extractor constructed with frame_indices has
\* len(frame_indices) frames and half the native sampling frequency;
\* one constructed without has the native frame count and the native
\* sampling frequency (the one passed in when the file has none).
C14_FrameIndicesSelectAndHalve ==
    Constructed =>
       /\ (ret.frame_indices # None /\ Len(The(ret.frame_indices)) \in {0} \cup ((ret.file.num_frames + 1)..(MaxFrames + 1)))
             => unit.kind = "failed"
       /\ (ret.frame_indices # None /\ unit.kind = "extractor")
             => /\ unit.num_frames = Len(The(ret.frame_indices))
                /\ 2 * unit.sampling_frequency = NativeFrequency
                /\ ret.file.sampling_frequency = Some(NativeFrequency)
       /\ (ret.frame_indices = None /\ unit.kind = "extractor")
             => /\ unit.num_frames = ret.file.num_frames
                /\ unit.sampling_frequency = (IF ret.file.sampling_frequency # None THEN NativeFrequency ELSE The(ret.sampling_frequency))

\* An extractor was constructed with a list of frame indices shorter than
\* the file.
C14_Witness ==
    /\ Constructed
    /\ unit.kind = "extractor"
    /\ ret.frame_indices # None
    /\ Len(The(ret.frame_indices)) < ret.file.num_frames

----------------------------------------------------------------------------
(* Properties of the event intervals.                                      *)

\* The 1-based positions of the samples of the file with this timestamp.
SamplesAt(t) == {p \in DOMAIN unit.timestamp : unit.timestamp[p] = t}

\* The trace of the file from which the intervals of an event type come.
SignalOf(event_type) == IF event_type = "Reward" THEN unit.file.reward ELSE unit.file.lick

\* C16: each interval of the events table starts at the timestamp of the
\* first sample that is 1 after a 0 and stops at the timestamp of the last
\* sample that is still 1 in that run; for [0,0,1,1,1,0,0,1,0] with the
\* timestamps 0..8 the intervals are (2,4) and (7,7).
C16_IntervalStopsAtLastOne ==
    (ret.op = "add_binary_signals" /\ ret.err = "ok" /\ ret.intervals # None) =>
        \A i \in DOMAIN The(ret.intervals) :
           \E a \in SamplesAt(The(ret.intervals)[i].start_time), b \in SamplesAt(The(ret.intervals)[i].stop_time) :
              LET trace == SignalOf(The(ret.intervals)[i].event_type)
              IN /\ a > 1 /\ trace[a - 1] = 0
                 /\ a <= b
                 /\ \A p \in a..b : trace[p] = 1
                 /\ b < Len(trace) => trace[b + 1] = 0

----------------------------------------------------------------------------
(* Properties of the interfaces' timestamps.                               *)

\* The original timestamps of the fiber photometry interface were read.
PulseRead == ret.op = "get_original_timestamps" /\ ret.stream = "fiber_photometry"

\* The 0-based indices i > 0 with trace[i-1] = 0 and trace[i] = 1, ascending.
RisingEdges(trace) ==
    SelectSeq([j \in 1..(Len(trace) - 1) |-> j], LAMBDA j : trace[j] = 0 /\ trace[j + 1] = 1)

\* C17: for a pulse trace and a timestamp array of the same length the
\* fiber photometry interface's original timestamps are the timestamps at
\* the rising edges of the trace, in increasing index order, index 0
\* never among them, and none for an all-zero or all-one trace.
C17_TimestampsAtRisingEdges ==
    (PulseRead /\ Len(unit.ttl.ttlIn1) = Len(unit.ttl.timestamp)) =>
        /\ ret.err = "ok"
        /\ The(ret.timestamps) = [k \in DOMAIN RisingEdges(unit.ttl.ttlIn1) |-> unit.ttl.timestamp[RisingEdges(unit.ttl.ttlIn1)[k] + 1]]
        /\ (\A p, q \in DOMAIN unit.ttl.ttlIn1 : unit.ttl.ttlIn1[p] = unit.ttl.ttlIn1[q]) => The(ret.timestamps) = <<>>

\* The timestamps of a trace with two rising edges were read.
C17_Witness ==
    /\ PulseRead
    /\ Len(unit.ttl.ttlIn1) = Len(unit.ttl.timestamp)
    /\ Len(RisingEdges(unit.ttl.ttlIn1)) = 2
    /\ unit.ttl.timestamp[1] = 5
    /\ ret.timestamps = Some(<<6, 8>>)

\* C18: reading the original timestamps fails whenever the pulse trace
\* and the timestamp array differ in length; no result is returned.
C18_LengthMismatchFails ==
    (PulseRead /\ Len(unit.ttl.ttlIn1) # Len(unit.ttl.timestamp)) => ret.err # "ok"

\* The native timestamps of a stream, as the files give them: the behavior
\* file's timestamp array, the TTL timestamps at the rising edges.
Native(stream) ==
    IF stream = "behavior" THEN unit.behavior.file.timestamp
    ELSE Some([k \in DOMAIN RisingEdges(unit.ttl.ttlIn1) |-> unit.ttl.timestamp[RisingEdges(unit.ttl.ttlIn1)[k] + 1]])

\* The array, or its stub prefix when the read was a stub read.
StubPrefix(timestamps) ==
    IF timestamps = None \/ ~ret.stub_test THEN timestamps
    ELSE Some(Prefix(The(timestamps), StubOf(ret.stream)))

\* C19: once set_aligned_timestamps has been called on the fiber
\* photometry or the behavior interface, every get_timestamps returns the
\* aligned array last set (its stub prefix in a stub read), never the
\* native one; before that it returns the native timestamps; and
\* get_original_timestamps returns the native ones at any time.
C19_AlignedTimestampsTakePrecedence ==
    /\ ret.op = "get_original_timestamps" => ret.timestamps = Native(ret.stream)
    /\ ret.op = "get_timestamps" =>
          ret.timestamps = StubPrefix(IF unit.aligned[ret.stream] # None THEN unit.aligned[ret.stream] ELSE Native(ret.stream))

\* A stub read of an interface whose aligned array is longer than the
\* stub length, and whose native timestamps are there.
C19_Witness ==
    /\ ret.op = "get_timestamps" /\ ret.stub_test
    /\ unit.aligned[ret.stream] # None
    /\ Len(The(unit.aligned[ret.stream])) > StubOf(ret.stream)
    /\ Len(The(ret.timestamps)) = StubOf(ret.stream)
    /\ Native(ret.stream) \notin {None, Some(<<>>)}

----------------------------------------------------------------------------
(* Properties of the batch drivers.                                        *)

\* The defects that are missing metadata or a missing file.
MissingKinds == Defects \ {"nwb_exists", "tif_count_mismatch"}

\* C20: in the batch drivers a session with missing metadata or a
\* missing file is skipped with a warning and the batch goes on: no such
\* session ends the batch with an exception.
C20_FailingSessionIsSkipped ==
    \A i \in DOMAIN unit.done :
       (unit.rows[i].defects \cap MissingKinds # {}) => (unit.done[i] = "warned" /\ (i = Len(unit.done) => unit.err = "ok"))

----------------------------------------------------------------------------
(* Properties of a stub run.                                               *)

\* C21: in a stub run every fiber photometry series holds at most
\* StubFrames samples, the behavior series and its timestamps at most
\* BehaviorStubFrames, the event intervals are derived from the first
\* BehaviorStubFrames samples of the traces only, and a batch driver called
\* with stub_test runs the session conversion in stub mode.
C21_StubRunTruncatesEverything ==
    unit.kind = "stub_run" /\ unit.stub_test =>
       /\ ret.op = "FiberPhotometry_add_to_nwbfile" => \A s \in ret.series : s.frames <= StubFrames
       /\ ret.op = "Behavior_add_to_nwbfile" =>
             /\ \A k \in DOMAIN ret.velocity :
                   /\ Len(ret.velocity[k].data) <= BehaviorStubFrames
                   /\ Len(ret.velocity[k].timestamps) <= BehaviorStubFrames
             /\ ret.events.intervals # None =>
                   \A i \in DOMAIN The(ret.events.intervals) :
                      /\ The(ret.events.intervals)[i].start_time < BehaviorStubFrames
                      /\ The(ret.events.intervals)[i].stop_time < BehaviorStubFrames
       /\ ret.op \in BatchDrivers => ret.session_stub_test

----------------------------------------------------------------------------
(* Properties of the extractor's sampling frequency.                       *)

\* C22: on a .cxd file whose metadata has no sampling frequency, the
\* extractor is constructed with the caller's sampling_frequency when one
\* is given, and the construction fails with ValueError when none is,
\* with frame_indices and without.
C22_MissingFrequencyFromCallerOrValueError ==
    (Constructed /\ ret.file.cxd /\ ret.file.sampling_frequency = None) =>
       /\ ret.sampling_frequency = None => unit = Failed("ValueError")
       /\ ret.sampling_frequency # None =>
             /\ unit.kind = "extractor" => unit.sampling_frequency = The(ret.sampling_frequency)
             /\ unit.kind = "failed" => unit.err # "TypeError"

----------------------------------------------------------------------------
(* Properties of the series the interface derives.                         *)

\* The names of the series the last operation put into a container.
NewIn(container) ==
    IF container = "acquisition" THEN SeriesNames(doc.acquisition) \ SeriesNames(pre.acquisition)
    ELSE SeriesNames(doc.ophys) \ SeriesNames(pre.ophys)

\* The description of the raw trace of the wavelength of the last add.
RawDescription == mds[last.wl].traces[1].description

\* C23: an add of the interface puts the raw series N under acquisition
\* only, and the derived series its file has under processing/ophys only,
\* named "Baseline" + N and "DfOverF" + N, their descriptions the raw one
\* with "Raw" replaced by "Baseline" and by "Baseline corrected (DF/F)".
C23_DerivedSeriesNamedAndPlaced ==
    InterfaceAdded =>
       /\ NewIn("acquisition") = {RawName(last.wl)}
       /\ NewIn("processing/ophys") =
             {<<"Baseline">> \o RawName(last.wl) : b \in {last.file.F_baseline} \ {FALSE}}
             \cup {<<"DfOverF">> \o RawName(last.wl) : b \in {last.file.Fc} \ {FALSE}}
       /\ last.file.F_baseline =>
             GetSeries(doc.ophys, <<"Baseline">> \o RawName(last.wl)).description = Replace(RawDescription, "Raw", "Baseline")
       /\ last.file.Fc =>
             GetSeries(doc.ophys, <<"DfOverF">> \o RawName(last.wl)).description = Replace(RawDescription, "Raw", "Baseline corrected (DF/F)")

\* C23, the case: the interface added a file with both derived traces, and
\* the raw description says "Raw".
C23_Witness ==
    /\ InterfaceAdded
    /\ last.file.F_baseline /\ last.file.Fc
    /\ \E i \in DOMAIN RawDescription : RawDescription[i] = "Raw"
    /\ Len(doc.ophys) >= 2

----------------------------------------------------------------------------
(* Properties of the videos' aligned timestamps.                           *)

\* The alignment made last ran through and set the flag.
AlignedNow == Aligning /\ clast.err = "ok" /\ ~cpre.aligned /\ conv.aligned

\* The timestamps of the TTL file at the rising edges of a channel.
EdgeTimes(ttl_stream_name) ==
    The(Take(conv.ttl.timestamp, get_rising_frames_from_ttl(conv.ttl[ttl_stream_name])))

\* C24: after an alignment every video holds the rising-edge timestamps of
\* its TTL channel cut to the number of aligned imaging (fiber photometry)
\* timestamps: never more than these, and all of them when the channel has
\* no more rising edges than that.
C24_VideoTimestampsTruncatedToFrames ==
    AlignedNow =>
       \A k \in DOMAIN conv.videos :
          LET edges == EdgeTimes(The(conv.videos[k].stream))
              video_timestamps == The(conv.videos[k].timestamps)
              frames == Len(The(conv.fiber_photometry.timestamps))
          IN /\ frames = Len(conv.imaging.times)
             /\ Len(video_timestamps) <= frames
             /\ video_timestamps = SubSeq(edges, 1, Len(video_timestamps))
             /\ Len(edges) <= frames => video_timestamps = edges
             /\ Len(edges) > frames => Len(video_timestamps) = frames

\* C24, the case: of two videos aligned, one has more rising edges than
\* there are frames and was cut, the other was left whole.
C24_Witness ==
    /\ AlignedNow
    /\ \E k \in DOMAIN conv.videos :
          /\ Len(EdgeTimes(The(conv.videos[k].stream))) > Len(conv.imaging.times)
          /\ Len(The(conv.videos[k].timestamps)) = Len(conv.imaging.times)
    /\ \E k \in DOMAIN conv.videos :
          /\ Len(EdgeTimes(The(conv.videos[k].stream))) <= Len(conv.imaging.times)
          /\ The(conv.videos[k].timestamps) = EdgeTimes(The(conv.videos[k].stream))

----------------------------------------------------------------------------
(* Properties of the timing of the series.                                 *)

\* The series a document holds, under either container.
AllSeries(d) == {d.acquisition[i] : i \in DOMAIN d.acquisition} \cup {d.ophys[i] : i \in DOMAIN d.ophys}

\* A timing descriptor is either (starting_time, rate) or timestamps.
OneTiming(timing) ==
    \/ timing.rate # None /\ timing.starting_time # None /\ timing.timestamps = None
    \/ timing.rate = None /\ timing.starting_time = None /\ timing.timestamps # None

\* C25: every series has exactly one timing descriptor, and a series added
\* when the document holds series of the same fiber set has the timing
\* descriptor of those, whatever timestamps the call was given.
C25_LaterSeriesKeepFirstTiming ==
    /\ \A s \in AllSeries(doc) : OneTiming(s.timing)
    /\ SeriesAdded =>
          \A s \in AllSeries(pre) :
             s.data.cols = last.cols => LastSeries(ContainerOf(doc, last.container)).timing = s.timing

\* Through the interface the raw series is the first of its fiber set and
\* is under acquisition: the derived series of an add have its timing.
C25_InterfaceSeriesShareTiming ==
    InterfaceAdded =>
       \A s \in AllSeries(doc) \ AllSeries(pre) :
          s.timing = GetSeries(doc.acquisition, RawName(last.wl)).timing

----------------------------------------------------------------------------
(* Properties of a failed alignment.                                       *)

\* C26: an alignment that raises ValueError for a video whose file matches
\* no TTL channel has changed no timestamps: the imaging, the fiber
\* photometry, the processed imaging and the videos are as before the call,
\* and the flag is still unset.
C26_FailedAlignmentChangesNothing ==
    (/\ clast.op = "temporally_align_data_interfaces"
     /\ clast.err = "ValueError"
     /\ \E k \in DOMAIN cpre.videos : TtlStreamFor(cpre.videos[k].path) = None)
    => /\ TimestampsOf(conv) = TimestampsOf(cpre)
       /\ ~conv.aligned

----------------------------------------------------------------------------
(* Properties of the starting time and of the calls of a session.          *)

\* C27: an aligned_starting_time given to single_wavelength_session_to_nwb
\* reaches the alignment whether the call creates the document or adds to
\* the caller's: the call does not fail for want of a starting time, and
\* when it succeeds the imaging timestamps are shifted by the value given.
C27_StartingTimeReachesAlignment ==
    (sess.op = "single_wavelength_session_to_nwb" /\ sess.aligned_starting_time # None) =>
       /\ sess.err # "TypeError"
       /\ sess.err = "ok" => conv.imaging.times = Shifted(sess.times, The(sess.aligned_starting_time))

\* C28: a dual-wavelength session with complete behavior logs calls
\* single_wavelength_session_to_nwb with declared parameters only; the
\* first call keeps the document in memory, the second adds to it, and
\* the output file is written exactly once.
C28_DualCallsDeclaredParametersAndWritesOnce ==
    (/\ sess.op = "dual_wavelength_session_to_nwb"
     /\ sess.behavior_file_paths # None
     /\ \A i \in 1..2 : /\ The(sess.behavior_file_paths)[i].timestamp # None
                        /\ The(sess.behavior_file_paths)[i].orig_frame_numbers # None)
    => /\ (FirstKeywords \cup SecondKeywords) \subseteq SingleParameters
       /\ "nwbfile_path" \notin FirstKeywords
       /\ sess.written = 1

----------------------------------------------------------------------------
(* Properties of the pairing of onsets and offsets.                        *)

\* C29: for every event trace with a 0-to-1 transition, also one that
\* begins at 1, ends at 1 or never falls back to 0, add_binary_signals
\* completes without error and every interval stops after it starts.
C29_OnsetsPairedWithOffsets ==
    (ret.op = "add_binary_signals" /\ Changes(unit.file.lick, 1) # <<>>) =>
       /\ ret.err = "ok"
       /\ ret.intervals # None
       /\ \A i \in DOMAIN The(ret.intervals) :
             The(ret.intervals)[i].stop_time > The(ret.intervals)[i].start_time

----------------------------------------------------------------------------
(* Properties of a refused series.                                         *)

\* C30: a call of add_fiber_photometry_series that raises ValueError, for
\* a device record that is missing or for a parent container that is not
\* supported, leaves the document as it was: no device registered, no row
\* appended, no series attached.
C30_ValueErrorLeavesDocumentUnchanged ==
    (last.op = "add_fiber_photometry_series" /\ last.err = "ValueError") => doc = pre

====
